---- MODULE Spec2Model ----
(***************************************************************************)
(* Tesla-MCP: the multi-tenant session store and the OAuth 2.1 relay       *)
(* server of the HTTP/SSE gateway, as a state machine.                     *)
(*                                                                         *)
(* Every HTTP handler is one action (a handler that awaits Tesla's token   *)
(* endpoint is two: the part before the await and the part after it).      *)
(* Random identifiers (crypto.randomBytes) are drawn fresh from counters.   *)
(* Time is Date.now(), counted in units of 30 seconds.                     *)
(* An absent (undefined) string is "", an absent identifier is 0; both are *)
(* falsy in the source, as are '' and 0.                                   *)
(***************************************************************************)
EXTENDS Integers, Sequences, FiniteSets, TLC

\* ------------------------------------------------------------------ bounds
\* the clock readings: MaxEarly code lifetimes, and those a bearer token's lifetime later
MaxEarly == 1
\* the random identifiers a run may draw, of each kind
MaxSessions == 1
MaxClients == 1
MaxLogins == 1
MaxCodes == 1
MaxBearers == 2
MaxRefresh == 2
MaxTesla == 1
MaxTokens == 1
MaxPending == 1
MaxTransports == 2
\* the same for the end-to-end runs, which send well-formed requests only
E2ESessions == 2

\* ------------------------------------------------------- program constants
\* 5 * 60 * 1000: the lifetime of an authorization code
CodeLifetimeMs == 300000
\* SESSION_TTL_MS = 24 * 60 * 60 * 1000
CACHE_TTL == 60000
SESSION_TTL_MS == 86400000
\* const expiresIn = 3600 (seconds)
expiresIn == 3600
\* Tesla's expires_in (seconds) in a token response: 8 hours
TeslaExpiresIn == 28800
MaxCalls == 2
MaxRelogins == 2
MaxWindows == 2
MaxServiceTokens == 3

\* ms -> units of time (30 seconds: half the lifetime of a vehicle cache entry)
Units(ms) == ms \div 30000

\* ------------------------------------------------------------ input values
URIs == {"https://client.example/cb", "https://client.example/cb.evil.example"}
\* req.body.redirect_uris of POST /oauth/register: a list of URIs (or none)
RedirectUriLists == {{}, {"https://client.example/cb"}}
\* code_verifier values a client may present ("" is an absent one)
Verifiers == {"", "v1", "v2"}
ResponseTypes == {"code", "token"}

\* crypto.createHash('sha256').update(v).digest('base64url'): one digest per
\* input, no two inputs sharing a digest, and no digest empty
SHA256(v) ==
    CASE v = "" -> "47DEQpj8HBSa"
      [] v = "v1" -> "hHh3sS0Kc0fE"
      [] v = "v2" -> "Zk9mT2QxY3Jl"
      [] OTHER -> "digest"

\* ------------------------------------------------------------------- state
VARIABLES
    now,                 \* Date.now()
    HAS_SERVER_CREDENTIALS,
    sessions,            \* SessionManager.sessions
    tokenToSessionId,    \* SessionManager.tokenToSessionId
    oauthClients,
    oauthAuthCodes,
    mcpBearerTokens,
    mcpRefreshTokens,
    mcpHttpTransports,
    pending,             \* /auth/callback requests awaiting Tesla's token endpoint
    rnd,                 \* how many random identifiers of each kind were drawn
    budget,              \* how many of each kind a run may draw (never changes)
    delivered,           \* the authorization responses /auth/callback redirected
    issued,              \* the successful responses of POST /oauth/token
    activeTransports,    \* the legacy SSE transports, by transport.sessionId
    sent,                \* the exchanges /auth/callback sent to Tesla's token endpoint
    vehiclesCache,       \* sessionId -> {vehicles, lastFetch}
    calls,               \* the Tesla service calls suspended at an await
    upstream,            \* the requests each suspended call has sent to Tesla
    resp                 \* the response of the last request handled

vars == <<now, HAS_SERVER_CREDENTIALS, sessions, tokenToSessionId, oauthClients,
          oauthAuthCodes, mcpBearerTokens, mcpRefreshTokens, mcpHttpTransports,
          pending, rnd, budget, delivered, issued, activeTransports, sent,
          vehiclesCache, calls, upstream, resp>>

\* ----------------------------------------------------------------- helpers
Put(f, k, v) == [x \in DOMAIN f \cup {k} |-> IF x = k THEN v ELSE f[x]]
Drop(f, k) == [x \in DOMAIN f \ {k} |-> f[x]]
Has(f, k) == k \in DOMAIN f
EmptyMap == [x \in {} |-> 0]

Fresh(kind) == rnd[kind] + 1
Draw(kind) == [rnd EXCEPT ![kind] = @ + 1]

Response(op, status, error) == [op |-> op, status |-> status, error |-> error]

\* ----------------------------------------------------------- SessionManager
\* createSession(): the record stored under a fresh sessionId
NewSession ==
    [clientId |-> "", clientSecret |-> "",
     accessToken |-> 0, refreshToken |-> 0, tokenExpiration |-> 0,
     state |-> 0, codeVerifier |-> 0,
     lastActivity |-> now,
     oauthClientId |-> 0, oauthRedirectUri |-> "", oauthClientState |-> "",
     oauthCodeChallenge |-> "", oauthCodeChallengeMethod |-> ""]

createSession(ss, id) == Put(ss, id, NewSession)

\* a store whose lookups leave lastActivity as it is
getSessionUntouched(ss, id) == ss

\* getSession(id): the lookup touches lastActivity
getSession(ss, id) ==
    IF Has(ss, id) THEN [ss EXCEPT ![id].lastActivity = now] ELSE ss

\* a store whose updates fill only the fields that are still unset
updateSessionOnce(ss, id, data) ==
    IF Has(ss, id)
    THEN [ss EXCEPT ![id] =
            [f \in DOMAIN @ |->
                IF f = "lastActivity" THEN now
                ELSE IF f \in DOMAIN data /\ @[f] = NewSession[f] THEN data[f] ELSE @[f]]]
    ELSE ss

\* updateSession(id, data): Object.assign(session, data, {lastActivity})
updateSession(ss, id, data) ==
    IF Has(ss, id)
    THEN [ss EXCEPT ![id] =
            [f \in DOMAIN @ |->
                IF f = "lastActivity" THEN now
                ELSE IF f \in DOMAIN data THEN data[f] ELSE @[f]]]
    ELSE ss

\* a session manager that accepts every state
validateAnyState(ss, id, state) == TRUE

\* validateState(id, state): session?.state === state
validateState(ss, id, state) ==
    IF Has(ss, id) THEN ss[id].state = state ELSE state = 0

\* getCodeVerifier(id)
getCodeVerifier(ss, id) == IF Has(ss, id) THEN ss[id].codeVerifier ELSE 0

\* createConnectionToken(id)
createConnectionToken(tokens, token, id) == Put(tokens, token, id)

\* getSessionByToken(token): the sessionId of the session found (0: undefined)
getSessionByToken(tokens, ss, token) ==
    IF Has(tokens, token) /\ tokens[token] # 0 /\ Has(ss, tokens[token])
    THEN tokens[token]
    ELSE 0

\* a session manager on which a token is good until its expiration has passed
hasUnexpiredTokens(ss, id) ==
    /\ Has(ss, id)
    /\ ss[id].accessToken # 0
    /\ ~(ss[id].tokenExpiration # 0 /\ now > ss[id].tokenExpiration)

\* hasValidTokens(id)
hasValidTokens(ss, id) ==
    IF ~Has(ss, id) THEN FALSE
    ELSE IF ss[id].accessToken = 0 THEN FALSE
    ELSE IF ss[id].tokenExpiration # 0 /\ now >= ss[id].tokenExpiration THEN FALSE
    ELSE TRUE

\* a session manager that leaves the connection tokens of removed sessions
TokensKept(tokens, ids) == tokens

\* the token table without the tokens that point to the sessions ids
TokensWithout(tokens, ids) ==
    [t \in {t \in DOMAIN tokens : tokens[t] \notin ids} |-> tokens[t]]

\* a sweep that removes a session as soon as it is 24 hours idle
SessionIdleFor24h(session) == now - session.lastActivity >= Units(SESSION_TTL_MS)

\* now - session.lastActivity > SESSION_TTL_MS
SessionExpired(session) == now - session.lastActivity > Units(SESSION_TTL_MS)

\* the state after construction: every table empty
InitWith(b) ==
    /\ now = 0
    /\ HAS_SERVER_CREDENTIALS \in BOOLEAN
    /\ sessions = EmptyMap
    /\ tokenToSessionId = EmptyMap
    /\ oauthClients = EmptyMap
    /\ oauthAuthCodes = EmptyMap
    /\ mcpBearerTokens = EmptyMap
    /\ mcpRefreshTokens = EmptyMap
    /\ mcpHttpTransports = EmptyMap
    /\ pending = <<>>
    /\ rnd = [kind \in DOMAIN b |-> 0]
    /\ budget = b
    /\ delivered = {}
    /\ issued = {}
    /\ activeTransports = EmptyMap
    /\ sent = {}
    /\ vehiclesCache = EmptyMap
    /\ calls = EmptyMap
    /\ upstream = EmptyMap
    /\ resp = Response("none", 0, "")

RelayBudget ==
    [session |-> MaxSessions, client |-> MaxClients, state |-> MaxLogins,
     verifier |-> MaxLogins, code |-> MaxCodes, bearer |-> MaxBearers,
     refresh |-> MaxRefresh, transport |-> 0, sse |-> 0, token |-> MaxTokens,
     tesla |-> MaxTesla, pending |-> MaxPending, call |-> 0]

Init == InitWith(RelayBudget)

\* ------------------------------------------------- POST /oauth/register
OAuthRegister(redirect_uris) ==
    /\ IF redirect_uris = {}
       THEN /\ resp' = Response("register", 400, "invalid_client_metadata")
            /\ UNCHANGED <<oauthClients, rnd>>
       ELSE /\ rnd["client"] < budget["client"]
            /\ oauthClients' = Put(oauthClients, Fresh("client"),
                                   [client_id |-> Fresh("client"),
                                    redirect_uris |-> redirect_uris])
            /\ rnd' = Draw("client")
            /\ resp' = Response("register", 201, "")
    /\ UNCHANGED <<now, HAS_SERVER_CREDENTIALS, budget, vehiclesCache, calls,
                   upstream, activeTransports, sent,
                   delivered, sessions, tokenToSessionId,
                   oauthAuthCodes, mcpBearerTokens, mcpRefreshTokens,
                   mcpHttpTransports, pending, issued>>

\* ------------------------------------------------- GET /oauth/authorize
ServerCredentials == [clientId |-> "server", clientSecret |-> "server"]

\* the session after the handler's updateSession calls
AuthorizedSessions(id, client_id, redirect_uri, state, code_challenge, method) ==
    LET created == createSession(sessions, id)
        injected == IF HAS_SERVER_CREDENTIALS
                    THEN updateSession(created, id, ServerCredentials)
                    ELSE created
    IN updateSession(injected, id,
           [oauthClientId |-> client_id,
            oauthRedirectUri |-> redirect_uri,
            oauthClientState |-> state,
            oauthCodeChallenge |-> code_challenge,
            oauthCodeChallengeMethod |-> IF method = "" THEN "S256" ELSE method])

\* a server that accepts any redirect_uri of a registered client
RedirectUriAny(client_id, redirect_uri) == TRUE

\* client.redirect_uris.includes(redirect_uri)
RedirectUriRegistered(client_id, redirect_uri) ==
    redirect_uri \in oauthClients[client_id].redirect_uris

\* a server that looks the client up before it looks at response_type
AuthorizeErrorClientFirst(client_id, redirect_uri, response_type) ==
    IF ~Has(oauthClients, client_id) THEN "invalid_client"
    ELSE IF response_type # "code" THEN "unsupported_response_type"
    ELSE IF ~RedirectUriRegistered(client_id, redirect_uri) THEN "invalid_redirect_uri"
    ELSE ""

\* a server that checks the response type and nothing else
AuthorizeErrorTypeOnly(client_id, redirect_uri, response_type) ==
    IF response_type # "code" THEN "unsupported_response_type" ELSE ""

\* the checks of the authorization request, in the handler's order
AuthorizeError(client_id, redirect_uri, response_type) ==
    IF response_type # "code" THEN "unsupported_response_type"
    ELSE IF ~Has(oauthClients, client_id) THEN "invalid_client"
    ELSE IF ~RedirectUriRegistered(client_id, redirect_uri) THEN "invalid_redirect_uri"
    ELSE ""

OAuthAuthorize(client_id, redirect_uri, state, code_challenge, method, response_type) ==
    /\ IF AuthorizeError(client_id, redirect_uri, response_type) # ""
       THEN /\ resp' = Response("authorize", 400,
                                AuthorizeError(client_id, redirect_uri, response_type))
            /\ UNCHANGED <<sessions, rnd>>
       ELSE /\ rnd["session"] < budget["session"]
            /\ sessions' = AuthorizedSessions(Fresh("session"), client_id, redirect_uri,
                                              state, code_challenge, method)
            /\ rnd' = Draw("session")
            /\ resp' = [op |-> "authorize", status |-> 302, error |-> "",
                        session |-> Fresh("session")]
    /\ UNCHANGED <<now, HAS_SERVER_CREDENTIALS, budget, vehiclesCache, calls,
                   upstream, activeTransports, sent,
                   delivered, tokenToSessionId, oauthClients,
                   oauthAuthCodes, mcpBearerTokens, mcpRefreshTokens,
                   mcpHttpTransports, pending, issued>>

\* --------------------------------------------------------- POST /setup
SetupPost(session, credentials) ==
    /\ IF session = 0 \/ credentials = ""
       THEN /\ resp' = Response("setup", 400, "Missing required fields")
            /\ UNCHANGED sessions
       ELSE IF ~Has(sessions, session)
       THEN /\ resp' = Response("setup", 400, "Invalid session")
            /\ UNCHANGED sessions
       ELSE /\ sessions' = updateSession(getSession(sessions, session), session,
                               [clientId |-> credentials, clientSecret |-> credentials])
            /\ resp' = Response("setup", 200, "")
    /\ UNCHANGED <<now, HAS_SERVER_CREDENTIALS, budget, vehiclesCache, calls,
                   upstream, activeTransports, sent,
                   delivered, tokenToSessionId, oauthClients,
                   oauthAuthCodes, mcpBearerTokens, mcpRefreshTokens,
                   mcpHttpTransports, pending, rnd, issued>>

\* ------------------------------------------------------ GET /auth/login
HasCredentials(ss, id) ==
    Has(ss, id) /\ ss[id].clientId # "" /\ ss[id].clientSecret # ""

AuthLogin(sessionParam) ==
    LET isNew == sessionParam = 0 \/ ~Has(sessions, sessionParam)
        sessionId == IF isNew THEN Fresh("session") ELSE sessionParam
        \* line 3127 (lookup or creation) and line 3135 (lookup)
        looked == IF isNew THEN createSession(sessions, sessionId)
                  ELSE getSession(sessions, sessionId)
        rnd1 == IF isNew THEN Draw("session") ELSE rnd
        withCreds == IF ~HasCredentials(looked, sessionId) /\ HAS_SERVER_CREDENTIALS
                     THEN updateSession(looked, sessionId, ServerCredentials)
                     ELSE looked
    IN
    /\ isNew => rnd["session"] < budget["session"]
    /\ IF (isNew /\ ~HAS_SERVER_CREDENTIALS) \/ ~HasCredentials(withCreds, sessionId)
       THEN /\ sessions' = looked
            /\ rnd' = rnd1
            /\ resp' = Response("login", 302, "setup")
       ELSE /\ rnd["state"] < budget["state"]
            \* generateOAuthState, then generatePKCE
            /\ sessions' = updateSession(
                               updateSession(withCreds, sessionId,
                                             [state |-> Fresh("state")]),
                               sessionId, [codeVerifier |-> Fresh("verifier")])
            /\ rnd' = [rnd1 EXCEPT !["state"] = @ + 1, !["verifier"] = @ + 1]
            /\ resp' = Response("login", 302, "")
    /\ UNCHANGED <<now, HAS_SERVER_CREDENTIALS, budget, vehiclesCache, calls,
                   upstream, activeTransports, sent,
                   delivered, tokenToSessionId, oauthClients,
                   oauthAuthCodes, mcpBearerTokens, mcpRefreshTokens,
                   mcpHttpTransports, pending, issued>>

\* --------------------------------------------------- GET /auth/callback
\* a server that shows every outcome in a page of its own
CallbackPage(ss, id, status, error, code) ==
    [op |-> "callback", status |-> status, error |-> error,
     location |-> "", code |-> 0, state |-> ""]

\* the redirect back to the MCP client, or the page shown instead
CallbackReply(ss, id, status, error, code) ==
    IF Has(ss, id) /\ ss[id].oauthRedirectUri # ""
    THEN [op |-> "callback", status |-> 302, error |-> error,
          location |-> ss[id].oauthRedirectUri, code |-> code,
          state |-> ss[id].oauthClientState]
    ELSE [op |-> "callback", status |-> status, error |-> error,
          location |-> "", code |-> 0, state |-> ""]

\* The handler up to its await of Tesla's token endpoint. stateParam is
\* "<sessionId>:<state>"; a state of 0 is the undefined that split(':') leaves
\* when there is no ':'; sessionId 0 is an absent stateParam.
AuthCallback(hasCode, sessionId, state, error) ==
    /\ IF error
       THEN /\ sessions' = getSession(sessions, sessionId)
            /\ resp' = CallbackReply(sessions, sessionId, 400, "tesla_error", 0)
            /\ UNCHANGED pending
       ELSE IF ~hasCode \/ sessionId = 0
       THEN /\ resp' = Response("callback", 400, "Missing authorization code or state")
            /\ UNCHANGED <<sessions, pending>>
       ELSE IF ~validateState(sessions, sessionId, state)
       THEN /\ resp' = Response("callback", 400, "Invalid state parameter")
            /\ UNCHANGED <<sessions, pending>>
       ELSE IF ~HasCredentials(sessions, sessionId)
       THEN /\ sessions' = getSession(sessions, sessionId)
            /\ resp' = Response("callback", 400, "Session credentials not found")
            /\ UNCHANGED pending
       ELSE IF getCodeVerifier(sessions, sessionId) = 0
       THEN /\ sessions' = getSession(sessions, sessionId)
            /\ resp' = Response("callback", 400, "Missing code verifier")
            /\ UNCHANGED pending
       ELSE /\ Len(pending) < budget["pending"]
            /\ sessions' = getSession(sessions, sessionId)
            /\ pending' = Append(pending,
                                 [sessionId |-> sessionId,
                                  codeVerifier |-> getCodeVerifier(sessions, sessionId)])
            /\ resp' = Response("callback", 0, "awaiting")
    \* axios.post(AUTH_URL/token) with code_verifier
    /\ sent' = IF resp'.error = "awaiting"
               THEN sent \cup {[sessionId |-> sessionId, state |-> state,
                                codeVerifier |-> getCodeVerifier(sessions, sessionId)]}
               ELSE sent
    /\ UNCHANGED <<now, HAS_SERVER_CREDENTIALS, budget, vehiclesCache, calls,
                   upstream, activeTransports,
                   delivered, tokenToSessionId, oauthClients,
                   oauthAuthCodes, mcpBearerTokens, mcpRefreshTokens,
                   mcpHttpTransports, rnd, issued>>

RemoveAt(seq, i) == SubSeq(seq, 1, i - 1) \o SubSeq(seq, i + 1, Len(seq))

\* a server that mints codes without the client's PKCE challenge
MintedWithoutChallenge(session, sessionId) ==
    [userSessionId |-> sessionId,
     clientId |-> session.oauthClientId,
     redirectUri |-> session.oauthRedirectUri,
     codeChallenge |-> "",
     codeChallengeMethod |-> IF session.oauthCodeChallengeMethod = "" THEN "S256"
                             ELSE session.oauthCodeChallengeMethod,
     expiresAt |-> now + Units(5 * 60 * 1000)]

\* a server that binds the code to the session created last
MintedForLatestSession(session, sessionId) ==
    [userSessionId |-> rnd["session"],
     clientId |-> session.oauthClientId,
     redirectUri |-> session.oauthRedirectUri,
     codeChallenge |-> session.oauthCodeChallenge,
     codeChallengeMethod |-> IF session.oauthCodeChallengeMethod = "" THEN "S256"
                             ELSE session.oauthCodeChallengeMethod,
     expiresAt |-> now + Units(5 * 60 * 1000)]

\* the authorization code minted for a session with a pending MCP OAuth flow
MintedAuthCode(session, sessionId) ==
    [userSessionId |-> sessionId,
     clientId |-> session.oauthClientId,
     redirectUri |-> session.oauthRedirectUri,
     codeChallenge |-> session.oauthCodeChallenge,
     codeChallengeMethod |-> IF session.oauthCodeChallengeMethod = "" THEN "S256"
                             ELSE session.oauthCodeChallengeMethod,
     expiresAt |-> now + Units(5 * 60 * 1000)]

\* Tesla answered with tokens: the handler after its await
AuthCallbackTokens(i, hasRefreshToken) ==
    LET sessionId == pending[i].sessionId
        stored == updateSession(sessions, sessionId,
                      [accessToken |-> Fresh("tesla"),
                       refreshToken |-> IF hasRefreshToken THEN Fresh("tesla") ELSE 0,
                       tokenExpiration |-> now + Units(TeslaExpiresIn * 1000)])
        oauthSessions == getSession(stored, sessionId)
    IN
    /\ rnd["tesla"] < budget["tesla"]
    /\ pending' = RemoveAt(pending, i)
    /\ sessions' = oauthSessions
    /\ IF Has(oauthSessions, sessionId) /\ oauthSessions[sessionId].oauthRedirectUri # ""
       THEN /\ rnd["code"] < budget["code"]
            /\ oauthAuthCodes' = Put(oauthAuthCodes, Fresh("code"),
                                     MintedAuthCode(oauthSessions[sessionId], sessionId))
            /\ rnd' = [rnd EXCEPT !["tesla"] = @ + 1, !["code"] = @ + 1]
            /\ resp' = CallbackReply(oauthSessions, sessionId, 302, "", Fresh("code"))
            /\ delivered' = delivered \cup
                   {[sessionId |-> sessionId, code |-> Fresh("code"),
                     location |-> oauthSessions[sessionId].oauthRedirectUri,
                     state |-> oauthSessions[sessionId].oauthClientState,
                     at |-> now]}
            /\ UNCHANGED tokenToSessionId
       ELSE /\ rnd["token"] < budget["token"]
            /\ tokenToSessionId' =
                   createConnectionToken(tokenToSessionId, Fresh("token"), sessionId)
            /\ rnd' = [rnd EXCEPT !["tesla"] = @ + 1, !["token"] = @ + 1]
            /\ resp' = [op |-> "callback", status |-> 200, error |-> "",
                        location |-> "", code |-> 0, state |-> ""]
            /\ UNCHANGED <<oauthAuthCodes, delivered>>
    /\ UNCHANGED <<now, HAS_SERVER_CREDENTIALS, budget, vehiclesCache, calls,
                   upstream, activeTransports, sent,
                   oauthClients, mcpBearerTokens,
                   mcpRefreshTokens, mcpHttpTransports, issued>>

\* Tesla's token endpoint failed: the handler's catch
AuthCallbackFailed(i) ==
    LET sessionId == pending[i].sessionId
    IN
    /\ pending' = RemoveAt(pending, i)
    /\ sessions' = getSession(sessions, sessionId)
    /\ resp' = CallbackReply(sessions, sessionId, 500, "server_error", 0)
    /\ UNCHANGED <<now, HAS_SERVER_CREDENTIALS, budget, vehiclesCache, calls,
                   upstream, activeTransports, sent,
                   delivered, tokenToSessionId, oauthClients,
                   oauthAuthCodes, mcpBearerTokens, mcpRefreshTokens,
                   mcpHttpTransports, rnd, issued>>

\* ---------------------------------------------------- POST /oauth/token
TokenReply(status, error, description, grant_type, code) ==
    [op |-> "token", status |-> status, error |-> error,
     error_description |-> description, grant_type |-> grant_type, code |-> code]

\* a server on which codes never expire
CodeNeverExpired(authCode) == FALSE

\* authCode.expiresAt < Date.now()
CodeExpired(authCode) == authCode.expiresAt < now

\* a server that compares the client_id only
CodeMismatchClientOnly(authCode, client_id, redirect_uri) ==
    authCode.clientId # client_id

\* authCode.clientId !== client_id || authCode.redirectUri !== redirect_uri
CodeMismatch(authCode, client_id, redirect_uri) ==
    authCode.clientId # client_id \/ authCode.redirectUri # redirect_uri

\* a server without the PKCE check
PkceNotChecked(authCode, code_verifier) == FALSE

\* a server that demands the verifier's digest of every code
PkceAlwaysChecked(authCode, code_verifier) ==
    SHA256(code_verifier) # authCode.codeChallenge

\* the PKCE check: skipped when no challenge was recorded
PkceFailed(authCode, code_verifier) ==
    /\ authCode.codeChallenge # ""
    /\ SHA256(code_verifier) # authCode.codeChallenge

\* the table after the rejection of a code that is there, not expired
CodesAfterRejection(code) == oauthAuthCodes

\* a server that keeps an exchanged code
CodesKeptAfterExchange(code) == oauthAuthCodes

\* the table after a successful exchange
CodesAfterExchange(code) == Drop(oauthAuthCodes, code)

\* the lifetime of a bearer token, in units of time
BearerLifetime == Units(expiresIn * 1000)

TokenAuthorizationCode(code, redirect_uri, client_id, code_verifier) ==
    IF ~Has(oauthAuthCodes, code) \/ CodeExpired(oauthAuthCodes[code])
    THEN /\ oauthAuthCodes' = Drop(oauthAuthCodes, code)
         /\ resp' = TokenReply(400, "invalid_grant",
                               "Invalid or expired authorization code",
                               "authorization_code", code)
         /\ UNCHANGED <<mcpBearerTokens, mcpRefreshTokens, rnd, issued>>
    ELSE IF CodeMismatch(oauthAuthCodes[code], client_id, redirect_uri)
    THEN /\ oauthAuthCodes' = CodesAfterRejection(code)
         /\ resp' = TokenReply(400, "invalid_grant", "client_id or redirect_uri mismatch",
                               "authorization_code", code)
         /\ UNCHANGED <<mcpBearerTokens, mcpRefreshTokens, rnd, issued>>
    ELSE IF PkceFailed(oauthAuthCodes[code], code_verifier)
    THEN /\ oauthAuthCodes' = CodesAfterRejection(code)
         /\ resp' = TokenReply(400, "invalid_grant", "PKCE verification failed",
                               "authorization_code", code)
         /\ UNCHANGED <<mcpBearerTokens, mcpRefreshTokens, rnd, issued>>
    ELSE LET authCode == oauthAuthCodes[code]
             accessToken == Fresh("bearer")
             mcpRefresh == Fresh("refresh")
         IN
         /\ rnd["bearer"] < budget["bearer"]
         /\ rnd["refresh"] < budget["refresh"]
         /\ mcpBearerTokens' = Put(mcpBearerTokens, accessToken,
                                   [userSessionId |-> authCode.userSessionId,
                                    expiresAt |-> now + BearerLifetime])
         /\ mcpRefreshTokens' = Put(mcpRefreshTokens, mcpRefresh,
                                    [userSessionId |-> authCode.userSessionId,
                                     clientId |-> authCode.clientId])
         /\ oauthAuthCodes' = CodesAfterExchange(code)
         /\ rnd' = [rnd EXCEPT !["bearer"] = @ + 1, !["refresh"] = @ + 1]
         /\ issued' = issued \cup
                {[grant_type |-> "authorization_code", code |-> code,
                  access_token |-> accessToken, expires_in |-> expiresIn,
                  refresh_token |-> mcpRefresh, at |-> now]}
         /\ resp' = TokenReply(200, "", "", "authorization_code", code)

\* a server that consumes the refresh token
RefreshTokenConsumed(refresh_token) == Drop(mcpRefreshTokens, refresh_token)

\* the refresh-token table after a refresh_token grant
RefreshTokensAfterGrant(refresh_token) == mcpRefreshTokens

TokenRefreshToken(refresh_token, client_id) ==
    IF ~Has(mcpRefreshTokens, refresh_token)
    THEN /\ resp' = TokenReply(400, "invalid_grant", "Invalid refresh token",
                               "refresh_token", 0)
         /\ UNCHANGED <<oauthAuthCodes, mcpBearerTokens, mcpRefreshTokens, rnd, issued>>
    ELSE LET stored == mcpRefreshTokens[refresh_token]
             accessToken == Fresh("bearer")
         IN
         /\ rnd["bearer"] < budget["bearer"]
         /\ mcpBearerTokens' = Put(mcpBearerTokens, accessToken,
                                   [userSessionId |-> stored.userSessionId,
                                    expiresAt |-> now + BearerLifetime])
         /\ mcpRefreshTokens' = RefreshTokensAfterGrant(refresh_token)
         /\ rnd' = Draw("bearer")
         /\ issued' = issued \cup
                {[grant_type |-> "refresh_token", code |-> 0,
                  access_token |-> accessToken, expires_in |-> expiresIn,
                  refresh_token |-> refresh_token, at |-> now]}
         /\ resp' = TokenReply(200, "", "", "refresh_token", 0)
         /\ UNCHANGED oauthAuthCodes

OAuthToken(grant_type, code, redirect_uri, client_id, code_verifier, refresh_token) ==
    /\ IF grant_type = "authorization_code"
       THEN TokenAuthorizationCode(code, redirect_uri, client_id, code_verifier)
       ELSE IF grant_type = "refresh_token"
       THEN TokenRefreshToken(refresh_token, client_id)
       ELSE /\ resp' = TokenReply(400, "unsupported_grant_type", "", grant_type, 0)
            /\ UNCHANGED <<oauthAuthCodes, mcpBearerTokens, mcpRefreshTokens, rnd,
                           issued>>
    /\ UNCHANGED <<now, HAS_SERVER_CREDENTIALS, budget, vehiclesCache, calls,
                   upstream, activeTransports, sent,
                   delivered, sessions, tokenToSessionId,
                   oauthClients, mcpHttpTransports, pending>>

\* ------------------------------------------------------------------ /mcp
\* a server on which bearer tokens never expire
BearerNeverExpired(stored) == FALSE

\* stored.expiresAt < Date.now()
BearerExpired(stored) == stored.expiresAt < now

\* authenticateMcpBearer(req): the userSessionId (0 for null); token 0 is a
\* request without an "Authorization: Bearer" header

authenticateMcpBearer(token) ==
    IF token = 0 \/ ~Has(mcpBearerTokens, token) THEN 0
    ELSE IF BearerExpired(mcpBearerTokens[token]) THEN 0
    ELSE mcpBearerTokens[token].userSessionId

\* the bearer table after authenticateMcpBearer: an expired record is deleted
BearersAfterAuth(token) ==
    IF /\ token # 0
       /\ Has(mcpBearerTokens, token)
       /\ BearerExpired(mcpBearerTokens[token])
    THEN Drop(mcpBearerTokens, token)
    ELSE mcpBearerTokens

Unauthorized(op) == Response(op, 401, "Unauthorized")

\* a gateway that starts a session for every id it does not know
StartsSessionAlways(mcpSessionId) == TRUE

\* else if (!mcpSessionId): the request starts a new session
StartsSession(mcpSessionId) == mcpSessionId = 0

\* isInitialize: the body is an initialize request, on which the transport
\* draws its session id and calls onsessioninitialized
McpPost(token, mcpSessionId, isInitialize) ==
    LET userSessionId == authenticateMcpBearer(token)
    IN
    /\ mcpBearerTokens' = BearersAfterAuth(token)
    /\ IF userSessionId = 0
       THEN /\ resp' = Unauthorized("mcp.post")
            /\ UNCHANGED <<mcpHttpTransports, rnd>>
       ELSE IF mcpSessionId # 0 /\ Has(mcpHttpTransports, mcpSessionId)
       THEN /\ resp' = Response("mcp.post", 200, "")
            /\ UNCHANGED <<mcpHttpTransports, rnd>>
       ELSE IF StartsSession(mcpSessionId)
       THEN IF isInitialize
            THEN /\ rnd["transport"] < budget["transport"]
                 /\ mcpHttpTransports' = Put(mcpHttpTransports, Fresh("transport"),
                                             [userSessionId |-> userSessionId])
                 /\ rnd' = Draw("transport")
                 /\ resp' = Response("mcp.post", 200, "")
            ELSE /\ resp' = Response("mcp.post", 400, "Server not initialized")
                 /\ UNCHANGED <<mcpHttpTransports, rnd>>
       ELSE /\ resp' = Response("mcp.post", 400, "Invalid session")
            /\ UNCHANGED <<mcpHttpTransports, rnd>>
    /\ UNCHANGED <<now, HAS_SERVER_CREDENTIALS, budget, vehiclesCache, calls,
                   upstream, activeTransports, sent,
                   delivered, sessions, tokenToSessionId,
                   oauthClients, oauthAuthCodes, mcpRefreshTokens, pending, issued>>

McpGet(token, mcpSessionId) ==
    LET userSessionId == authenticateMcpBearer(token)
    IN
    /\ mcpBearerTokens' = BearersAfterAuth(token)
    /\ resp' = IF userSessionId = 0 THEN Unauthorized("mcp.get")
               ELSE IF mcpSessionId = 0 \/ ~Has(mcpHttpTransports, mcpSessionId)
               THEN Response("mcp.get", 400, "Invalid or missing mcp-session-id")
               ELSE Response("mcp.get", 200, "")
    /\ UNCHANGED <<now, HAS_SERVER_CREDENTIALS, budget, vehiclesCache, calls,
                   upstream, activeTransports, sent,
                   delivered, sessions, tokenToSessionId,
                   oauthClients, oauthAuthCodes, mcpRefreshTokens,
                   mcpHttpTransports, pending, rnd, issued>>

\* a gateway whose teardown closes every transport
TransportsAllClosed(mcpSessionId) == EmptyMap

\* transport.close() runs transport.onclose, which deletes the entry
TransportsAfterClose(mcpSessionId) == Drop(mcpHttpTransports, mcpSessionId)

\* DELETE /mcp reads no Authorization header: the token is an input it ignores
McpDelete(token, mcpSessionId) ==
    /\ mcpHttpTransports' =
           IF mcpSessionId # 0 /\ Has(mcpHttpTransports, mcpSessionId)
           \* after transport.close() the handler deletes the entry again
           THEN Drop(TransportsAfterClose(mcpSessionId), mcpSessionId)
           ELSE mcpHttpTransports
    /\ resp' = Response("mcp.delete", 200, "")
    /\ UNCHANGED <<now, HAS_SERVER_CREDENTIALS, budget, vehiclesCache, calls,
                   upstream, activeTransports, sent,
                   delivered, sessions, tokenToSessionId,
                   oauthClients, oauthAuthCodes, mcpBearerTokens, mcpRefreshTokens,
                   pending, rnd, issued>>

\* ----------------------------------------------------------------- time
\* the clock readings at which requests are handled: the first ones, and
\* those a bearer token's lifetime later
EarlyTimes == {Units(CodeLifetimeMs) * t : t \in 0..MaxEarly}

TimePoints == EarlyTimes \cup {BearerLifetime + t : t \in EarlyTimes}

\* time passes, up to a later clock reading
Tick(t) ==
    /\ t > now
    /\ now' = t
    /\ UNCHANGED <<HAS_SERVER_CREDENTIALS, budget, vehiclesCache, calls,
                   upstream, activeTransports, sent,
                   delivered, sessions, tokenToSessionId, oauthClients,
                   oauthAuthCodes, mcpBearerTokens, mcpRefreshTokens,
                   mcpHttpTransports, pending, rnd, issued, resp>>

\* ---------------------------------------------------------- specification
\* The requests a user agent or client may send: every kind of request each
\* handler tells apart, over the identifiers that exist or may come to exist.
AuthorizeRequests ==
    \* a client that uses PKCE and a state, one that uses neither
    {[client_id |-> c, redirect_uri |-> u, state |-> "XYZ",
      code_challenge |-> SHA256("v1"), method |-> "S256", response_type |-> "code"] :
        c \in 0..budget["client"], u \in URIs}
    \cup {[client_id |-> c, redirect_uri |-> "https://client.example/cb", state |-> "",
           code_challenge |-> "", method |-> "", response_type |-> t] :
            c \in 1..budget["client"], t \in ResponseTypes}

CallbackRequests ==
    {[hasCode |-> TRUE, sessionId |-> id, state |-> st, error |-> FALSE] :
        id \in 1..budget["session"], st \in 0..budget["state"]}
    \cup {[hasCode |-> FALSE, sessionId |-> id, state |-> 0, error |-> e] :
            id \in 0..budget["session"], e \in BOOLEAN}

TokenRequests ==
    {[grant_type |-> "authorization_code", code |-> c, redirect_uri |-> u,
      client_id |-> cl, code_verifier |-> v, refresh_token |-> 0] :
        c \in 1..budget["code"], u \in URIs, cl \in 0..budget["client"],
        v \in Verifiers}
    \* a code that was never minted
    \cup {[grant_type |-> "authorization_code", code |-> 0,
           redirect_uri |-> "https://client.example/cb", client_id |-> 1,
           code_verifier |-> "v1", refresh_token |-> 0]}
    \cup {[grant_type |-> "refresh_token", code |-> 0, redirect_uri |-> "",
           client_id |-> cl, code_verifier |-> "", refresh_token |-> r] :
            cl \in 0..budget["client"], r \in 0..budget["refresh"]}
    \cup {[grant_type |-> "password", code |-> 0, redirect_uri |-> "",
           client_id |-> 0, code_verifier |-> "", refresh_token |-> 0]}

Next ==
    \/ \E uris \in RedirectUriLists : OAuthRegister(uris)
    \/ \E r \in AuthorizeRequests :
          OAuthAuthorize(r.client_id, r.redirect_uri, r.state, r.code_challenge,
                         r.method, r.response_type)
    \/ \E session \in 0..budget["session"], credentials \in {"", "user"} :
          SetupPost(session, credentials)
    \/ \E sessionParam \in 0..budget["session"] : AuthLogin(sessionParam)
    \/ \E r \in CallbackRequests :
          AuthCallback(r.hasCode, r.sessionId, r.state, r.error)
    \/ \E i \in 1..Len(pending), hasRefreshToken \in BOOLEAN :
          AuthCallbackTokens(i, hasRefreshToken)
    \/ \E i \in 1..Len(pending) : AuthCallbackFailed(i)
    \/ \E r \in TokenRequests :
          OAuthToken(r.grant_type, r.code, r.redirect_uri, r.client_id,
                     r.code_verifier, r.refresh_token)
    \/ \E t \in TimePoints : Tick(t)

Spec == Init /\ [][Next]_vars

\* ------------------------------------------------------ end-to-end runs
\* The authorization flows of MCP clients, every request well formed: the
\* user agent follows the redirects and the client presents what it was given.
\* the code_verifier whose digest is the challenge ("" when there is none)
VerifierOf(challenge) ==
    IF challenge = "" THEN ""
    ELSE CHOOSE v \in Verifiers : SHA256(v) = challenge

NextFlow ==
    \/ OAuthRegister({"https://client.example/cb"})
    \/ \E c \in DOMAIN oauthClients :
          \/ OAuthAuthorize(c, "https://client.example/cb", "XYZ", SHA256("v1"),
                            "S256", "code")
          \/ OAuthAuthorize(c, "https://client.example/cb", "", "", "", "code")
    \/ \E session \in DOMAIN sessions : SetupPost(session, "user")
    \/ \E session \in DOMAIN sessions : AuthLogin(session)
    \/ \E session \in DOMAIN sessions :
          AuthCallback(TRUE, session, sessions[session].state, FALSE)
    \/ \E i \in 1..Len(pending) : AuthCallbackTokens(i, TRUE)
    \/ \E i \in 1..Len(pending) : AuthCallbackFailed(i)
    \/ \E code \in DOMAIN oauthAuthCodes :
          OAuthToken("authorization_code", code, oauthAuthCodes[code].redirectUri,
                     oauthAuthCodes[code].clientId,
                     VerifierOf(oauthAuthCodes[code].codeChallenge), 0)
    \/ \E r \in DOMAIN mcpRefreshTokens :
          OAuthToken("refresh_token", 0, "", mcpRefreshTokens[r].clientId, "", r)
    \/ \E t \in TimePoints : Tick(t)

\* two sessions side by side, of which one can complete its flow
E2EBudget ==
    [session |-> E2ESessions, client |-> MaxClients, state |-> E2ESessions,
     verifier |-> E2ESessions, code |-> MaxCodes, bearer |-> MaxBearers,
     refresh |-> MaxRefresh, transport |-> 0, sse |-> 0, token |-> 0,
     tesla |-> MaxTesla, pending |-> MaxPending, call |-> 0]

InitE2E == InitWith(E2EBudget)

SpecE2E == InitE2E /\ [][NextFlow]_vars

\* -------------------------------------------- the Streamable-HTTP endpoint
\* One client's flow, and /mcp requests with any token and any session id.
McpBudget ==
    [session |-> MaxSessions, client |-> MaxClients, state |-> MaxLogins,
     verifier |-> MaxLogins, code |-> MaxCodes, bearer |-> MaxBearers,
     refresh |-> MaxRefresh, transport |-> MaxTransports, sse |-> 0, token |-> 0,
     tesla |-> MaxTesla, pending |-> MaxPending, call |-> 0]

InitMcp == InitWith(McpBudget)

NextMcp ==
    \/ NextFlow
    \/ \E token \in 0..budget["bearer"], mcpSessionId \in 0..budget["transport"],
          isInitialize \in BOOLEAN : McpPost(token, mcpSessionId, isInitialize)
    \/ \E token \in 0..budget["bearer"], mcpSessionId \in 0..budget["transport"] :
          McpGet(token, mcpSessionId)
    \/ \E token \in 0..budget["bearer"], mcpSessionId \in 0..budget["transport"] :
          McpDelete(token, mcpSessionId)

SpecMcp == InitMcp /\ [][NextMcp]_vars

\* ------------------------------------------------- the refresh_token grant
\* One client's flow, and refresh_token grants with any token and client id.
MaxRefreshGrants == 2

RefreshBudget ==
    [session |-> MaxSessions, client |-> MaxClients, state |-> MaxLogins,
     verifier |-> MaxLogins, code |-> MaxCodes, bearer |-> MaxCodes + MaxRefreshGrants,
     refresh |-> MaxRefresh, transport |-> 0, sse |-> 0, token |-> 0,
     tesla |-> MaxTesla, pending |-> MaxPending, call |-> 0]

InitRefresh == InitWith(RefreshBudget)

RefreshRequests ==
    {[grant_type |-> "refresh_token", code |-> 0, redirect_uri |-> "",
      client_id |-> cl, code_verifier |-> "", refresh_token |-> r] :
        cl \in 0..budget["client"], r \in 0..budget["refresh"]}

NextRefresh ==
    \/ NextFlow
    \/ \E r \in RefreshRequests :
          OAuthToken(r.grant_type, r.code, r.redirect_uri, r.client_id,
                     r.code_verifier, r.refresh_token)

SpecRefresh == InitRefresh /\ [][NextRefresh]_vars

\* ================================================================ claims
Token(r) ==
    /\ resp'.op = "token"
    /\ resp'.code = r.code
    /\ OAuthToken(r.grant_type, r.code, r.redirect_uri, r.client_id, r.code_verifier,
                  r.refresh_token)

Authorize(r) ==
    /\ resp'.op = "authorize"
    /\ OAuthAuthorize(r.client_id, r.redirect_uri, r.state, r.code_challenge, r.method,
                      r.response_type)

CodeRequests == {r \in TokenRequests : r.grant_type = "authorization_code"}

\* code was exchanged for tokens before
Exchanged(code) ==
    \E x \in issued : x.grant_type = "authorization_code" /\ x.code = code

\* the request presents a code that is in the table and has not expired
PresentsLiveCode(r) ==
    /\ Has(oauthAuthCodes, r.code)
    /\ oauthAuthCodes[r.code].expiresAt >= now

Rejected == resp'.status = 400 /\ resp'.error = "invalid_grant"

NothingMinted == UNCHANGED <<mcpBearerTokens, mcpRefreshTokens, issued>>

\* C1: an authorization code is single-use. An exchange succeeds only for a
\* code that was never exchanged before, and it removes the code; every
\* exchange of a code that was exchanged before is rejected with
\* invalid_grant and mints no bearer or refresh token.
C1_SingleUse ==
    [][\A r \in CodeRequests : Token(r) =>
          /\ resp'.status = 200 =>
                ~Exchanged(r.code) /\ ~Has(oauthAuthCodes', r.code)
          /\ Exchanged(r.code) => Rejected /\ NothingMinted]_vars

\* a code was exchanged, and a later exchange of it was rejected
C1_Witness ==
    /\ resp.op = "token"
    /\ resp.grant_type = "authorization_code"
    /\ resp.error = "invalid_grant"
    /\ Exchanged(resp.code)

\* C2: a failed authorization_code exchange consumes the code. Whenever the
\* token endpoint rejects a code with invalid_grant (expired, client_id or
\* redirect_uri mismatch, PKCE failure) the code is no longer in the table.
C2_FailedExchangeConsumesCode ==
    [][\A r \in CodeRequests : Token(r) /\ Rejected => ~Has(oauthAuthCodes', r.code)]_vars

\* C3: a code whose expiresAt is earlier than now is rejected with
\* invalid_grant and nothing is minted for it, even on its first use; a code
\* is accepted only within 5 minutes of being minted by /auth/callback.
C3_CodeExpiry ==
    [][\A r \in CodeRequests : Token(r) =>
          /\ (Has(oauthAuthCodes, r.code) /\ oauthAuthCodes[r.code].expiresAt < now)
                => Rejected /\ NothingMinted
          /\ resp'.status = 200 =>
                \E d \in delivered :
                    d.code = r.code /\ now <= d.at + Units(CodeLifetimeMs)]_vars

\* a minted code, never exchanged, was presented after its 5 minutes and rejected
C3_Witness ==
    /\ resp.op = "token"
    /\ resp.error_description = "Invalid or expired authorization code"
    /\ \E d \in delivered :
          d.code = resp.code /\ now > d.at + Units(CodeLifetimeMs)
    /\ ~Exchanged(resp.code)
    /\ issued = {}

\* C4: PKCE. For a live code of the requesting client and redirect URI whose
\* recorded challenge is C, the exchange succeeds when SHA-256(code_verifier)
\* is C, and is rejected with invalid_grant, minting nothing, for every other
\* code_verifier, an absent one included.
C4_Pkce ==
    [][\A r \in CodeRequests :
          (/\ Token(r)
           /\ PresentsLiveCode(r)
           /\ oauthAuthCodes[r.code].clientId = r.client_id
           /\ oauthAuthCodes[r.code].redirectUri = r.redirect_uri
           /\ oauthAuthCodes[r.code].codeChallenge # "")
          => IF SHA256(r.code_verifier) = oauthAuthCodes[r.code].codeChallenge
             THEN resp'.status = 200 /\ issued' # issued
             ELSE Rejected /\ NothingMinted]_vars

\* a code with a recorded challenge was presented with a wrong verifier
C4_Witness ==
    /\ resp.op = "token"
    /\ resp.error_description = "PKCE verification failed"
    /\ Has(oauthAuthCodes, resp.code)
    /\ oauthAuthCodes[resp.code].codeChallenge = SHA256("v1")

\* C5: a code is bound to its client and redirect URI. A live code presented
\* with another client_id or another redirect_uri is rejected with
\* invalid_grant, and the bearer and refresh tables stay as they are.
C5_BoundToClientAndRedirect ==
    [][\A r \in CodeRequests :
          (/\ Token(r)
           /\ PresentsLiveCode(r)
           /\ \/ oauthAuthCodes[r.code].clientId # r.client_id
              \/ oauthAuthCodes[r.code].redirectUri # r.redirect_uri)
          => Rejected /\ UNCHANGED <<mcpBearerTokens, mcpRefreshTokens>>]_vars

\* a live code was presented with the wrong client or redirect URI
C5_Witness ==
    /\ resp.op = "token"
    /\ resp.error_description = "client_id or redirect_uri mismatch"
    /\ PresentsLiveCode(resp)

\* C6: /oauth/authorize accepts a redirect_uri only if it is one of the URIs
\* registered for the client; for a registered client and any other
\* redirect_uri it answers invalid_redirect_uri and creates no session.
C6_ExactRedirectUri ==
    [][\A r \in AuthorizeRequests : Authorize(r) =>
          /\ resp'.status = 302 =>
                /\ Has(oauthClients, r.client_id)
                /\ r.redirect_uri \in oauthClients[r.client_id].redirect_uris
          /\ (/\ r.response_type = "code"
              /\ Has(oauthClients, r.client_id)
              /\ r.redirect_uri \notin oauthClients[r.client_id].redirect_uris)
                => /\ resp'.status = 400
                   /\ resp'.error = "invalid_redirect_uri"
                   /\ UNCHANGED sessions]_vars

\* an unregistered redirect_uri of a registered client was refused
C6_Witness ==
    /\ resp.op = "authorize"
    /\ resp.error = "invalid_redirect_uri"
    /\ oauthClients # EmptyMap

\* the token is no valid, unexpired bearer token
NoValidBearer(token) ==
    \/ token = 0
    \/ ~Has(mcpBearerTokens, token)
    \/ mcpBearerTokens[token].expiresAt < now

\* C7: every call to /mcp (POST, GET, DELETE) without a valid, unexpired
\* bearer token gets 401 and leaves the transport table as it is.
C7_McpRequiresBearer ==
    [][\A token \in 0..budget["bearer"], id \in 0..budget["transport"] :
          (/\ NoValidBearer(token)
           /\ \/ McpGet(token, id)
              \/ McpDelete(token, id)
              \/ \E isInitialize \in BOOLEAN : McpPost(token, id, isInitialize))
          => resp'.status = 401 /\ UNCHANGED mcpHttpTransports]_vars

\* C8: a bearer token minted by /oauth/token is accepted at every time before
\* its 3600 seconds have elapsed and rejected at every time after; a rejected
\* use after expiry leaves no record of the token in the bearer table.
C8_BearerLifetime ==
    [][\A x \in issued, id \in 0..budget["transport"] :
          (\/ McpGet(x.access_token, id)
           \/ \E isInitialize \in BOOLEAN : McpPost(x.access_token, id, isInitialize))
          => /\ now < x.at + Units(3600 * 1000) =>
                  resp'.status # 401 /\ mcpBearerTokens' = mcpBearerTokens
             /\ now > x.at + Units(3600 * 1000) =>
                  resp'.status = 401 /\ ~Has(mcpBearerTokens', x.access_token)]_vars

\* a minted bearer token was used after its lifetime, refused and deleted
C8_Witness ==
    /\ resp.op \in {"mcp.get", "mcp.post"}
    /\ resp.status = 401
    /\ \E x \in issued :
          /\ now > x.at + Units(3600 * 1000)
          /\ ~Has(mcpBearerTokens, x.access_token)

\* C9: end to end. The bearer token and the refresh token returned for a code
\* are bound to the session the code was delivered for: a session that
\* /oauth/authorize created and that received the Tesla tokens. Authenticating
\* with the bearer token, while it lasts, yields that session; expires_in is 3600.
C9_EndToEndBinding ==
    \A x \in issued : x.grant_type = "authorization_code" =>
        \E d \in delivered :
            /\ d.code = x.code
            /\ Has(sessions, d.sessionId)
            /\ sessions[d.sessionId].oauthRedirectUri = d.location
            /\ sessions[d.sessionId].accessToken # 0
            /\ Has(mcpRefreshTokens, x.refresh_token)
            /\ mcpRefreshTokens[x.refresh_token].clientId =
                   sessions[d.sessionId].oauthClientId
            /\ mcpRefreshTokens[x.refresh_token].userSessionId = d.sessionId
            /\ Has(mcpBearerTokens, x.access_token)
            /\ mcpBearerTokens[x.access_token].userSessionId = d.sessionId
            /\ now <= x.at + Units(x.expires_in * 1000) =>
                  authenticateMcpBearer(x.access_token) = d.sessionId
            /\ x.expires_in = 3600

\* the older of two sessions completed its flow and exchanged its code
C9_Witness ==
    /\ DOMAIN sessions = {1, 2}
    /\ \E x \in issued, d \in delivered :
          /\ x.grant_type = "authorization_code"
          /\ d.code = x.code
          /\ d.sessionId = 1
          /\ sessions[1].oauthCodeChallenge = SHA256("v1")

\* C10: the refresh_token grant. An unknown refresh token is rejected with
\* invalid_grant and mints nothing; a known one mints one new bearer token,
\* bound to the refresh token's session and good for 1 hour, and leaves the
\* refresh-token table as it is, so that the token can be used again.
C10_RefreshGrant ==
    [][\A r \in RefreshRequests : Token(r) =>
          IF ~Has(mcpRefreshTokens, r.refresh_token)
          THEN Rejected /\ NothingMinted
          ELSE /\ resp'.status = 200
               /\ mcpRefreshTokens' = mcpRefreshTokens
               /\ \E b \in DOMAIN mcpBearerTokens' \ DOMAIN mcpBearerTokens :
                     /\ mcpBearerTokens' =
                            Put(mcpBearerTokens, b,
                                [userSessionId |->
                                     mcpRefreshTokens[r.refresh_token].userSessionId,
                                 expiresAt |-> now + Units(3600 * 1000)])]_vars

\* one refresh token was used twice, at different times
C10_Witness ==
    \E x, y \in issued :
        /\ x.grant_type = "refresh_token"
        /\ y.grant_type = "refresh_token"
        /\ x.refresh_token = y.refresh_token
        /\ x.access_token # y.access_token
        /\ x.at < y.at

Callback(r) ==
    /\ resp'.op = "callback"
    /\ AuthCallback(r.hasCode, r.sessionId, r.state, r.error)

\* the state parameter names an existing session and carries the state that
\* generateOAuthState stored on it
StateMatches(r) ==
    /\ Has(sessions, r.sessionId)
    /\ r.state # 0
    /\ sessions[r.sessionId].state = r.state

\* the Tesla token fields of a session (all unset when there is no session)
TokenFields(ss, id) ==
    IF Has(ss, id)
    THEN <<ss[id].accessToken, ss[id].refreshToken, ss[id].tokenExpiration>>
    ELSE <<0, 0, 0>>

\* the sessions whose Tesla token fields the step writes
TokensWritten ==
    {id \in DOMAIN sessions' : TokenFields(sessions', id) # TokenFields(sessions, id)}

\* C11: CSRF protection of the Tesla sub-flow. A callback whose state does not
\* name a session and carry that session's stored state starts no exchange,
\* writes no Tesla token field and creates no authorization code or connection
\* token; Tesla tokens are written only by a callback that passed this check,
\* and only into the session its state named.
C11_CallbackCsrf ==
    [][/\ \A r \in CallbackRequests : (Callback(r) /\ ~StateMatches(r)) =>
             /\ UNCHANGED <<sent, pending, oauthAuthCodes, tokenToSessionId>>
             /\ TokensWritten = {}
       /\ TokensWritten # {} =>
             \E i \in 1..Len(pending) :
                /\ \E hasRefreshToken \in BOOLEAN :
                      AuthCallbackTokens(i, hasRefreshToken)
                /\ \E x \in sent :
                      /\ x.sessionId = pending[i].sessionId
                      /\ x.state # 0
                /\ TokensWritten = {pending[i].sessionId}]_vars

\* a callback with a wrong state for a session that awaits its callback was refused
C11_Witness ==
    /\ resp.op = "callback"
    /\ resp.error = "Invalid state parameter"
    /\ \E id \in DOMAIN sessions :
          /\ sessions[id].state # 0
          /\ sessions[id].codeVerifier # 0
          /\ sessions[id].clientId # ""
          /\ sessions[id].accessToken = 0
    /\ sent = {}

\* ------------------------------------------- the SessionManager's methods
\* The session store by itself: its public methods, called in any order.
MaxStoreSessions == 2
MaxStoreTokens == 2

\* what the session store does not touch
RelayTables ==
    <<HAS_SERVER_CREDENTIALS, oauthClients, oauthAuthCodes, mcpBearerTokens,
      mcpRefreshTokens, mcpHttpTransports, pending, budget, vehiclesCache, calls,
      upstream, delivered, issued,
      activeTransports, sent>>

\* the value a method returned
Returned(op, value) == [op |-> op, status |-> 0, error |-> "", value |-> value]

CreateSession ==
    /\ rnd["session"] < budget["session"]
    /\ sessions' = createSession(sessions, Fresh("session"))
    /\ rnd' = Draw("session")
    /\ resp' = Returned("createSession", Fresh("session"))
    /\ UNCHANGED <<now, tokenToSessionId, RelayTables>>

GetSession(sessionId) ==
    /\ sessions' = getSession(sessions, sessionId)
    /\ resp' = Returned("getSession", IF Has(sessions, sessionId) THEN sessionId ELSE 0)
    /\ UNCHANGED <<now, tokenToSessionId, rnd, RelayTables>>

UpdateSession(sessionId, data) ==
    /\ sessions' = updateSession(sessions, sessionId, data)
    /\ resp' = Returned("updateSession", Has(sessions, sessionId))
    /\ UNCHANGED <<now, tokenToSessionId, rnd, RelayTables>>

CreateConnectionToken(sessionId) ==
    /\ rnd["token"] < budget["token"]
    /\ tokenToSessionId' = createConnectionToken(tokenToSessionId, Fresh("token"), sessionId)
    /\ rnd' = Draw("token")
    /\ resp' = Returned("createConnectionToken", Fresh("token"))
    /\ UNCHANGED <<now, sessions, RelayTables>>

GetSessionByToken(token) ==
    /\ sessions' = getSession(sessions, getSessionByToken(tokenToSessionId, sessions, token))
    /\ resp' = Returned("getSessionByToken",
                        getSessionByToken(tokenToSessionId, sessions, token))
    /\ UNCHANGED <<now, tokenToSessionId, rnd, RelayTables>>

DeleteSession(sessionId) ==
    /\ tokenToSessionId' = TokensWithout(tokenToSessionId, {sessionId})
    /\ sessions' = Drop(sessions, sessionId)
    /\ resp' = Returned("deleteSession", Has(sessions, sessionId))
    /\ UNCHANGED <<now, rnd, RelayTables>>

GenerateOAuthState(sessionId) ==
    /\ rnd["state"] < budget["state"]
    /\ sessions' = updateSession(sessions, sessionId, [state |-> Fresh("state")])
    /\ rnd' = Draw("state")
    /\ resp' = Returned("generateOAuthState", Fresh("state"))
    /\ UNCHANGED <<now, tokenToSessionId, RelayTables>>

GeneratePKCE(sessionId) ==
    /\ rnd["verifier"] < budget["verifier"]
    /\ sessions' = updateSession(sessions, sessionId, [codeVerifier |-> Fresh("verifier")])
    /\ rnd' = Draw("verifier")
    /\ resp' = Returned("generatePKCE", Fresh("verifier"))
    /\ UNCHANGED <<now, tokenToSessionId, RelayTables>>

\* cleanup(): the hourly sweep
Cleanup ==
    LET expired == {id \in DOMAIN sessions : SessionExpired(sessions[id])}
    IN
    /\ sessions' = [id \in DOMAIN sessions \ expired |-> sessions[id]]
    /\ tokenToSessionId' = TokensWithout(tokenToSessionId, expired)
    /\ resp' = Returned("cleanup", expired)
    /\ UNCHANGED <<now, rnd, RelayTables>>

\* the clock readings of the session store: the first ones, and those
\* SESSION_TTL_MS later
SessionTimePoints ==
    EarlyTimes \cup {Units(SESSION_TTL_MS) + t : t \in EarlyTimes}

\* updateSession data that set or clear the Tesla token fields
TokenUpdates ==
    {[accessToken |-> a] : a \in 0..1}
    \cup {[tokenExpiration |-> e] : e \in {0} \cup (SessionTimePoints \ {0})}
    \cup {[accessToken |-> 1, tokenExpiration |-> Units(SESSION_TTL_MS)]}

StoreBudget ==
    [session |-> MaxStoreSessions, client |-> 0, state |-> 0,
     verifier |-> 0, code |-> 0, bearer |-> 0, refresh |-> 0,
     transport |-> 0, sse |-> 0, token |-> MaxStoreTokens, tesla |-> 0,
     pending |-> 0, call |-> 0]

InitSessions == InitWith(StoreBudget)

\* sessions and their connection tokens, created, looked up, deleted and swept
NextSessions ==
    \/ CreateSession
    \/ \E id \in 0..budget["session"] : GetSession(id)
    \/ \E id \in 1..budget["session"] : CreateConnectionToken(id)
    \/ \E token \in 0..budget["token"] : GetSessionByToken(token)
    \/ \E id \in 1..budget["session"] : DeleteSession(id)
    \/ Cleanup
    \/ \E t \in SessionTimePoints : Tick(t)

SpecSessions == InitSessions /\ [][NextSessions]_vars

\* one session and its fields: Tesla tokens, OAuth state and PKCE verifier
FieldsBudget ==
    [session |-> MaxSessions, client |-> 0, state |-> MaxStoreTokens,
     verifier |-> MaxLogins, code |-> 0, bearer |-> 0, refresh |-> 0,
     transport |-> 0, sse |-> 0, token |-> 0, tesla |-> 0, pending |-> 0, call |-> 0]

InitFields == InitWith(FieldsBudget)

NextFields ==
    \/ CreateSession
    \/ \E id \in 1..budget["session"], data \in TokenUpdates : UpdateSession(id, data)
    \/ \E id \in 1..budget["session"] : GenerateOAuthState(id)
    \/ \E id \in 1..budget["session"] : GeneratePKCE(id)
    \/ \E id \in 1..budget["session"] : DeleteSession(id)
    \/ \E t \in SessionTimePoints : Tick(t)

SpecFields == InitFields /\ [][NextFields]_vars

\* C12: the session TTL sweep. A cleanup pass removes every session whose
\* lastActivity is more than 24 hours before the pass and retains, as it is,
\* every session whose lastActivity is 24 hours old or less.
C12_TtlSweep ==
    [][(resp'.op = "cleanup" /\ Cleanup) =>
          \A id \in DOMAIN sessions :
              IF now - sessions[id].lastActivity > Units(24 * 60 * 60 * 1000)
              THEN ~Has(sessions', id)
              ELSE Has(sessions', id) /\ sessions'[id] = sessions[id]]_vars

\* a pass removed a session and retained one that was idle for exactly 24 hours
C12_Witness ==
    /\ resp.op = "cleanup"
    /\ resp.value # {}
    /\ \E id \in DOMAIN sessions :
          now - sessions[id].lastActivity = Units(24 * 60 * 60 * 1000)

\* the connection tokens after the removal of the sessions ids: none maps to
\* one of them, getSessionByToken finds nothing for those that did, and the
\* tokens of the other sessions are as they were
Cascaded(ids) ==
    \A t \in DOMAIN tokenToSessionId :
        IF tokenToSessionId[t] \in ids
        THEN /\ ~Has(tokenToSessionId', t)
             /\ getSessionByToken(tokenToSessionId', sessions', t) = 0
        ELSE /\ Has(tokenToSessionId', t)
             /\ tokenToSessionId'[t] = tokenToSessionId[t]

\* C13: removing a session cascades to its connection tokens. After
\* deleteSession(id), and after a cleanup pass that removes sessions, no
\* connection token maps to a removed session, and the tokens that point to
\* other sessions are untouched.
C13_TokensCascade ==
    [][/\ \A id \in 1..budget["session"] :
             (resp'.op = "deleteSession" /\ DeleteSession(id)) =>
                 /\ Cascaded({id})
                 /\ \A t \in DOMAIN tokenToSessionId' : tokenToSessionId'[t] # id
       /\ (resp'.op = "cleanup" /\ Cleanup) =>
             /\ Cascaded(DOMAIN sessions \ DOMAIN sessions')
             /\ \A t \in DOMAIN tokenToSessionId' :
                   tokenToSessionId'[t] \notin DOMAIN sessions \ DOMAIN sessions']_vars

\* of two tokens, one went with its session and the other still finds its own
C13_Witness ==
    /\ resp.op \in {"deleteSession", "cleanup"}
    /\ rnd["token"] = 2
    /\ \E t \in 1..2 :
          /\ DOMAIN tokenToSessionId = {t}
          /\ getSessionByToken(tokenToSessionId, sessions, t) # 0
    /\ Cardinality(DOMAIN sessions) = 1
    /\ rnd["session"] = 2

\* C14: hasValidTokens(s) is true if and only if the session exists, its
\* accessToken is set and non-empty, and its tokenExpiration is unset or
\* later than now; at every time, and after every updateSession.
C14_HasValidTokens ==
    \A id \in 0..budget["session"] :
        hasValidTokens(sessions, id) <=>
            /\ Has(sessions, id)
            /\ sessions[id].accessToken # 0
            /\ \/ sessions[id].tokenExpiration = 0
               \/ sessions[id].tokenExpiration > now

\* an access token whose expiration is now, just set: not valid
C14_Witness ==
    /\ resp.op = "updateSession"
    /\ now > 0
    /\ \E id \in DOMAIN sessions :
          /\ sessions[id].accessToken # 0
          /\ sessions[id].tokenExpiration = now
          /\ sessions[id].lastActivity = now
          /\ ~hasValidTokens(sessions, id)

\* C15: state validation. validateState is true for the state that
\* generateOAuthState stored, false for every other state, and false for
\* every state, the undefined one (0) included, when the session is unknown.
C15_ValidateState ==
    /\ \A id \in DOMAIN sessions :
          /\ sessions[id].state # 0 => validateState(sessions, id, sessions[id].state)
          /\ \A x \in 0..budget["state"] :
                x # sessions[id].state => ~validateState(sessions, id, x)
    /\ \A id \in (1..budget["session"]) \ DOMAIN sessions :
          \A x \in 0..budget["state"] : ~validateState(sessions, id, x)

\* the callback gets past the check of its state parameter
PassesStateValidation(r) ==
    /\ ~r.error
    /\ r.hasCode
    /\ r.sessionId # 0
    /\ validateState(sessions, r.sessionId, r.state)

\* C16: the Tesla-flow state is single-use. Of the /auth/callback requests
\* that carry a state value produced by generateOAuthState, at most one
\* passes state validation: none passes after one with that value has.
C16_StateSingleUse ==
    [][\A r \in CallbackRequests :
          (Callback(r) /\ r.state # 0 /\ PassesStateValidation(r))
          => \A x \in sent : x.state # r.state]_vars

\* C17: a session's PKCE codeVerifier is single-use. A verifier that
\* /auth/callback has sent to Tesla's token endpoint is not sent in a later
\* exchange; a later exchange sends a verifier that generatePKCE produced since.
C17_VerifierSingleUse ==
    [][\A r \in CallbackRequests :
          (Callback(r) /\ resp'.error = "awaiting")
          => \A x \in sent : x.codeVerifier # getCodeVerifier(sessions, r.sessionId)]_vars

\* ------------------------------------------------- GET /sse, POST /messages
\* transport.sessionId: the UUID that the SDK's SSEServerTransport draws. A
\* UUID has another format than a sessionId (64 hex digits), so the two never
\* coincide: the UUIDs are the negative numbers.
TransportSessionId(n) == 0 - n

\* a gateway that falls back on the session parameter when the token finds nothing
resolveSessionOrToken(token, sessionParam) ==
    IF token # 0 /\ getSessionByToken(tokenToSessionId, sessions, token) # 0
    THEN getSessionByToken(tokenToSessionId, sessions, token)
    ELSE IF sessionParam # 0 /\ Has(sessions, sessionParam) THEN sessionParam
    ELSE 0

\* the existing session that GET /sse reuses (0: none, a session is created)
resolveSseSession(token, sessionParam) ==
    IF token # 0
    THEN getSessionByToken(tokenToSessionId, sessions, token)
    ELSE IF sessionParam # 0 /\ Has(sessions, sessionParam) THEN sessionParam
    ELSE 0

SseConnect(token, sessionParam) ==
    LET existing == resolveSseSession(token, sessionParam)
        userSessionId == IF existing # 0 THEN existing ELSE Fresh("session")
        transportSessionId == TransportSessionId(Fresh("sse"))
    IN
    /\ rnd["sse"] < budget["sse"]
    /\ existing = 0 => rnd["session"] < budget["session"]
    /\ sessions' = IF existing # 0 THEN getSession(sessions, existing)
                   ELSE createSession(sessions, userSessionId)
    /\ activeTransports' = Put(activeTransports, transportSessionId,
                               [userSessionId |-> userSessionId])
    /\ rnd' = IF existing # 0 THEN Draw("sse")
              ELSE [rnd EXCEPT !["sse"] = @ + 1, !["session"] = @ + 1]
    /\ resp' = [op |-> "sse", status |-> 200, error |-> "",
                token |-> token, sessionParam |-> sessionParam,
                transport |-> transportSessionId, session |-> userSessionId]
    /\ UNCHANGED <<now, HAS_SERVER_CREDENTIALS, budget, vehiclesCache, calls,
                   upstream, sent, delivered, tokenToSessionId,
                   oauthClients, oauthAuthCodes, mcpBearerTokens, mcpRefreshTokens,
                   mcpHttpTransports, pending, issued>>

\* a session store that forgets the user session of a closed connection
SessionsWithout(userSessionId) == Drop(sessions, userSessionId)

\* the session store after a disconnect: the close handler does not touch it
SessionsAfterClose(userSessionId) == sessions

\* res.on('close'): the downstream connection of a transport closes
SseClose(transportSessionId) ==
    /\ Has(activeTransports, transportSessionId)
    /\ activeTransports' = Drop(activeTransports, transportSessionId)
    /\ sessions' = SessionsAfterClose(activeTransports[transportSessionId].userSessionId)
    /\ resp' = [op |-> "sse.close", status |-> 0, error |-> "",
                transport |-> transportSessionId,
                session |-> activeTransports[transportSessionId].userSessionId]
    /\ UNCHANGED <<now, HAS_SERVER_CREDENTIALS, budget, vehiclesCache, calls,
                   upstream, sent, delivered, tokenToSessionId,
                   oauthClients, oauthAuthCodes, mcpBearerTokens, mcpRefreshTokens,
                   mcpHttpTransports, pending, rnd, issued>>

\* a gateway that routes to every transport id it ever issued
TransportIssued(sessionId) == sessionId < 0 /\ 0 - sessionId <= rnd["sse"]

\* activeTransports.get(sessionId)
TransportConnected(sessionId) == Has(activeTransports, sessionId)

\* POST /messages?sessionId=...; 202 is the transport's handlePostMessage
Messages(sessionId) ==
    /\ resp' = IF sessionId = 0
               THEN [op |-> "messages", status |-> 400, error |-> "Session ID required",
                     sessionId |-> sessionId]
               ELSE IF ~TransportConnected(sessionId)
               THEN [op |-> "messages", status |-> 404,
                     error |-> "Session not found. Please reconnect to /sse",
                     sessionId |-> sessionId]
               ELSE [op |-> "messages", status |-> 202, error |-> "",
                     sessionId |-> sessionId]
    /\ UNCHANGED <<now, HAS_SERVER_CREDENTIALS, budget, vehiclesCache, calls,
                   upstream, sent, delivered, sessions,
                   tokenToSessionId, oauthClients, oauthAuthCodes, mcpBearerTokens,
                   mcpRefreshTokens, mcpHttpTransports, activeTransports, pending, rnd,
                   issued>>

\* The legacy SSE gateway: the Tesla login of a user without an MCP OAuth
\* client, connections with any token and session parameter, messages with
\* any id, and the TTL sweep.
MaxSseSessions == 2
MaxSseTransports == 2

SseBudget ==
    [session |-> MaxSseSessions, client |-> 0, state |-> MaxLogins,
     verifier |-> MaxLogins, code |-> 0, bearer |-> 0, refresh |-> 0,
     transport |-> 0, sse |-> MaxSseTransports, token |-> MaxTokens,
     tesla |-> MaxTesla, pending |-> MaxPending, call |-> 0]

InitSse == InitWith(SseBudget)

\* the ids a client may send: none, a transport id, a user session id
MessageIds ==
    {0} \cup {TransportSessionId(n) : n \in 1..budget["sse"]} \cup (1..budget["session"])

NextSse ==
    \/ \E session \in DOMAIN sessions : SetupPost(session, "user")
    \/ \E session \in DOMAIN sessions : AuthLogin(session)
    \/ \E session \in DOMAIN sessions :
          AuthCallback(TRUE, session, sessions[session].state, FALSE)
    \/ \E i \in 1..Len(pending) : AuthCallbackTokens(i, TRUE)
    \/ \E i \in 1..Len(pending) : AuthCallbackFailed(i)
    \/ \E token \in 0..budget["token"], sessionParam \in 0..budget["session"] :
          SseConnect(token, sessionParam)
    \/ \E id \in DOMAIN activeTransports : SseClose(id)
    \/ \E id \in MessageIds : Messages(id)
    \/ Cleanup
    \/ \E t \in SessionTimePoints : Tick(t)

SpecSse == InitSse /\ [][NextSse]_vars

Sse(token, sessionParam) ==
    /\ resp'.op = "sse"
    /\ SseConnect(token, sessionParam)

\* the connection that the step registers is bound to session id, and no other
\* connection is registered or changed
BoundTo(id) ==
    \E t \in DOMAIN activeTransports' \ DOMAIN activeTransports :
        /\ DOMAIN activeTransports' = DOMAIN activeTransports \cup {t}
        /\ activeTransports'[t].userSessionId = id
        /\ \A u \in DOMAIN activeTransports : activeTransports'[u] = activeTransports[u]

\* the connection is bound to a session that the step creates
BoundToNewSession ==
    \E id \in DOMAIN sessions' \ DOMAIN sessions :
        /\ DOMAIN sessions' = DOMAIN sessions \cup {id}
        /\ BoundTo(id)

\* the connection is bound to the existing session id
Reuses(id) == BoundTo(id) /\ DOMAIN sessions' = DOMAIN sessions

\* C18: GET /sse resolves the owning session by priority. A token that maps
\* to a live session reuses that session; a token that does not creates a new
\* session, whatever the session parameter; with no token, a session
\* parameter that resolves reuses that session; otherwise a new session is
\* created. One session is bound, and an existing one only if the request
\* named it by a valid token or session id.
C18_SseSessionPriority ==
    [][\A token \in 0..budget["token"], sessionParam \in 0..budget["session"] :
          Sse(token, sessionParam) =>
             /\ IF token # 0
                THEN IF getSessionByToken(tokenToSessionId, sessions, token) # 0
                     THEN Reuses(tokenToSessionId[token])
                     ELSE BoundToNewSession
                ELSE IF sessionParam # 0 /\ Has(sessions, sessionParam)
                     THEN Reuses(sessionParam)
                     ELSE BoundToNewSession
             /\ \A id \in DOMAIN sessions :
                   BoundTo(id) =>
                      \/ token = 0 /\ sessionParam = id
                      \/ token # 0 /\ Has(tokenToSessionId, token)
                                   /\ tokenToSessionId[token] = id]_vars

\* a token that finds nothing, with the session parameter of a live session:
\* a new session was created
C18_Witness ==
    /\ resp.op = "sse"
    /\ resp.token # 0
    /\ Has(sessions, resp.sessionParam)
    /\ resp.session # resp.sessionParam
    /\ ~Has(tokenToSessionId, resp.token)
    /\ Has(activeTransports, resp.transport)
    /\ activeTransports[resp.transport].userSessionId = resp.session

\* C19: the legacy SSE lifecycle. Connecting with no token and no session
\* creates a user session and registers a transport under an id that is not
\* the user session id; a disconnect removes the transport entry and leaves
\* the session store as it is, the user session still in it.
C19_SseLifecycle ==
    [][/\ Sse(0, 0) =>
             /\ BoundToNewSession
             /\ \A t \in DOMAIN activeTransports' \ DOMAIN activeTransports :
                   t # activeTransports'[t].userSessionId
       /\ \A t \in DOMAIN activeTransports :
             (resp'.op = "sse.close" /\ SseClose(t)) =>
                /\ ~Has(activeTransports', t)
                /\ sessions' = sessions
                /\ Has(sessions, activeTransports[t].userSessionId) =>
                      Has(getSession(sessions', activeTransports[t].userSessionId),
                          activeTransports[t].userSessionId)]_vars

\* a connection was closed: its transport entry is gone, its session is there
C19_Witness ==
    /\ resp.op = "sse.close"
    /\ ~Has(activeTransports, resp.transport)
    /\ Has(sessions, resp.session)
    /\ resp.session # resp.transport

\* everything but the response
StateButResp ==
    <<now, HAS_SERVER_CREDENTIALS, sessions, tokenToSessionId, oauthClients,
      oauthAuthCodes, mcpBearerTokens, mcpRefreshTokens, mcpHttpTransports,
      pending, rnd, budget, delivered, issued, activeTransports, sent,
      vehiclesCache, calls, upstream>>

\* C20: POST /messages reaches a handler only when sessionId is the transport
\* id of a connected SSE transport. A missing id gets 400; an id that was
\* never issued, or whose connection has closed, gets 404; a rejected request
\* changes no state.
C20_MessagesRouting ==
    [][\A id \in MessageIds :
          (resp'.op = "messages" /\ resp'.sessionId = id /\ Messages(id)) =>
             /\ id = 0 => resp'.status = 400 /\ UNCHANGED StateButResp
             /\ (id # 0 /\ ~Has(activeTransports, id)) =>
                   resp'.status = 404 /\ UNCHANGED StateButResp
             /\ resp'.status = 202 => Has(activeTransports, id)]_vars

\* a message for a transport whose connection has closed was refused
C20_Witness ==
    /\ resp.op = "messages"
    /\ resp.status = 404
    /\ resp.sessionId < 0
    /\ 0 - resp.sessionId <= rnd["sse"]
    /\ ~Has(activeTransports, resp.sessionId)

\* the token is a valid, unexpired bearer token
ValidBearer(token) ==
    /\ token # 0
    /\ Has(mcpBearerTokens, token)
    /\ mcpBearerTokens[token].expiresAt >= now

\* C21: on the Streamable-HTTP transport an authenticated request with an
\* mcp-session-id that is not in the transport table gets 400 and creates no
\* transport; a transport is created only by an authenticated POST without an
\* mcp-session-id; an authenticated GET without a known id gets 400.
C21_UnknownMcpSession ==
    [][\A token \in 0..budget["bearer"], id \in 0..budget["transport"] :
          /\ \A isInitialize \in BOOLEAN :
                (resp'.op = "mcp.post" /\ McpPost(token, id, isInitialize)) =>
                   /\ (ValidBearer(token) /\ id # 0 /\ ~Has(mcpHttpTransports, id)) =>
                         resp'.status = 400 /\ UNCHANGED mcpHttpTransports
                   /\ mcpHttpTransports' # mcpHttpTransports =>
                         ValidBearer(token) /\ id = 0
          /\ (resp'.op = "mcp.get" /\ McpGet(token, id)) =>
                /\ (ValidBearer(token) /\ (id = 0 \/ ~Has(mcpHttpTransports, id))) =>
                      resp'.status = 400
                /\ UNCHANGED mcpHttpTransports]_vars

\* a POST for a session that was torn down was refused
C21_Witness ==
    /\ resp.op = "mcp.post"
    /\ resp.status = 400
    /\ resp.error = "Invalid session"
    /\ rnd["transport"] > 0
    /\ \E id \in 1..rnd["transport"] : ~Has(mcpHttpTransports, id)

\* C22: explicit teardown. DELETE /mcp naming a registered mcp-session-id
\* removes that entry and no other (the onclose callback and the handler both
\* deregister it, with the result of one deregistration), and no later step
\* registers the id again, so that it stays unknown.
C22_Teardown ==
    [][/\ \A token \in 0..budget["bearer"], id \in 1..budget["transport"] :
             (resp'.op = "mcp.delete" /\ McpDelete(token, id)
                 /\ Has(mcpHttpTransports, id)) =>
                /\ mcpHttpTransports' = Drop(mcpHttpTransports, id)
                /\ resp'.status = 200
       /\ \A id \in DOMAIN mcpHttpTransports' \ DOMAIN mcpHttpTransports :
             id > rnd["transport"]]_vars

\* of two sessions one was torn down, the other is registered still
C22_Witness ==
    /\ resp.op = "mcp.delete"
    /\ rnd["transport"] = 2
    /\ Cardinality(DOMAIN mcpHttpTransports) = 1

\* the session has a pending external (MCP client) authorization flow
PendingExternalFlow(id) == Has(sessions, id) /\ sessions[id].oauthRedirectUri # ""

\* C29: an authorization code is minted only by a successful Tesla callback
\* on a session with a pending external redirect URI; it records that
\* session's id, oauthClientId, oauthRedirectUri and oauthCodeChallenge and
\* expires 5 minutes after minting; the user agent is redirected to that URI
\* with the code and the client's state. No code exists for a session whose
\* Tesla login has not succeeded.
C29_CodeMinting ==
    [][/\ \A c \in DOMAIN oauthAuthCodes' \ DOMAIN oauthAuthCodes :
             \E i \in 1..Len(pending) :
                LET id == pending[i].sessionId IN
                /\ \E hasRefreshToken \in BOOLEAN : AuthCallbackTokens(i, hasRefreshToken)
                /\ PendingExternalFlow(id)
                /\ DOMAIN oauthAuthCodes' = DOMAIN oauthAuthCodes \cup {c}
                /\ oauthAuthCodes'[c].userSessionId = id
                /\ oauthAuthCodes'[c].clientId = sessions[id].oauthClientId
                /\ oauthAuthCodes'[c].redirectUri = sessions[id].oauthRedirectUri
                /\ oauthAuthCodes'[c].codeChallenge = sessions[id].oauthCodeChallenge
                /\ oauthAuthCodes'[c].expiresAt = now + Units(5 * 60 * 1000)
                /\ resp'.status = 302
                /\ resp'.location = sessions[id].oauthRedirectUri
                /\ resp'.code = c
                /\ resp'.state = sessions[id].oauthClientState
       /\ \A c \in DOMAIN oauthAuthCodes' :
             /\ Has(sessions', oauthAuthCodes'[c].userSessionId)
             /\ sessions'[oauthAuthCodes'[c].userSessionId].accessToken # 0]_vars

\* a code with the client's challenge was minted and sent to the client's URI
C29_Witness ==
    /\ resp.op = "callback"
    /\ resp.status = 302
    /\ Has(oauthAuthCodes, resp.code)
    /\ oauthAuthCodes[resp.code].codeChallenge = SHA256("v1")
    /\ resp.location = oauthAuthCodes[resp.code].redirectUri
    /\ resp.state = "XYZ"

\* the error is relayed to the client's redirect URI and nothing is granted
ErrorRelayed(id) ==
    /\ resp'.status = 302
    /\ resp'.location = sessions[id].oauthRedirectUri
    /\ resp'.state = sessions[id].oauthClientState
    /\ resp'.error # ""
    /\ resp'.code = 0
    /\ UNCHANGED <<oauthAuthCodes, tokenToSessionId>>
    /\ TokensWritten = {}

\* C30: when the Tesla sub-flow fails for a session with a pending external
\* flow (Tesla returns an error parameter, or the exchange with Tesla's token
\* endpoint throws), the user agent is redirected to the session's
\* oauthRedirectUri with an error and the client's state; no code is minted,
\* no connection token is created, the Tesla token fields stay as they are.
C30_TeslaFailureRelayed ==
    [][/\ \A r \in CallbackRequests :
             (Callback(r) /\ r.error /\ PendingExternalFlow(r.sessionId))
             => ErrorRelayed(r.sessionId)
       /\ \A i \in 1..Len(pending) :
             (resp'.op = "callback" /\ AuthCallbackFailed(i)
                 /\ PendingExternalFlow(pending[i].sessionId))
             => ErrorRelayed(pending[i].sessionId)]_vars

\* the exchange with Tesla failed and the error went to the client's URI
C30_Witness ==
    /\ resp.op = "callback"
    /\ resp.status = 302
    /\ resp.error = "server_error"
    /\ resp.location = "https://client.example/cb"
    /\ sent # {}
    /\ oauthAuthCodes = EmptyMap

\* C26: a connection token is created once per successful Tesla OAuth
\* completion. Every callback that stores Tesla tokens on a session creates
\* exactly one new connection token, which maps to that session; no other
\* step creates a connection token.
C26_ConnectionTokenPerCompletion ==
    [][/\ \A id \in TokensWritten :
             \E t \in DOMAIN tokenToSessionId' \ DOMAIN tokenToSessionId :
                /\ DOMAIN tokenToSessionId' = DOMAIN tokenToSessionId \cup {t}
                /\ tokenToSessionId'[t] = id
       /\ tokenToSessionId' # tokenToSessionId => TokensWritten # {}]_vars

\* ------------------------------------------ UserTeslaService, vehiclesCache
\* response.data.response || []: the vehicle lists Tesla may answer with
VehicleLists == {<<>>, <<"5YJ3">>}

\* a service that takes the credentials alone for an authentication
AuthenticatedByCredentials(ss, id) == HasCredentials(ss, id)

\* isAuthenticated(): refreshToken && clientId && clientSecret
isAuthenticated(ss, id) ==
    /\ Has(ss, id)
    /\ ss[id].refreshToken # 0
    /\ ss[id].clientId # ""
    /\ ss[id].clientSecret # ""

\* a service that refreshes on every access
RefreshesAlways(session) == TRUE

\* !session.accessToken || (session.tokenExpiration && Date.now() >= session.tokenExpiration)
NeedsRefresh(session) ==
    \/ session.accessToken = 0
    \/ session.tokenExpiration # 0 /\ now >= session.tokenExpiration

\* a cache whose entries stay fresh up to and including CACHE_TTL
CacheFreshInclusive(cache) ==
    cache # <<>> /\ (now - cache[1].lastFetch) <= Units(CACHE_TTL)

\* cache && (now - cache.lastFetch) < CACHE_TTL
CacheFresh(cache) ==
    cache # <<>> /\ (now - cache[1].lastFetch) < Units(CACHE_TTL)

\* vehiclesCache.get(sessionId): the entry, if there is one
CacheEntry(cached, sessionId) ==
    IF Has(cached, sessionId) THEN <<cached[sessionId]>> ELSE <<>>

\* cache?.vehicles || [], of the entry read when the call began
CapturedVehicles(call) ==
    IF call.cache = <<>> THEN <<>> ELSE call.cache[1].vehicles

\* the call is suspended at an await
Suspended(op) == [op |-> op, status |-> 0, error |-> "awaiting", value |-> <<>>]

\* the call ends in its caller's catch block, or with the error thrown
Failed(call) ==
    IF call.op = "getVehiclesForSession"
    THEN Returned(call.op, CapturedVehicles(call))
    ELSE [op |-> call.op, status |-> 0, error |-> "failed", value |-> <<>>]

\* getAccessToken() up to its first await: throws, awaits the refresh
\* exchange, or hands the stored token to the request
AccessTokenStep(ss, id) ==
    IF ~Has(ss, id) THEN "throw"
    ELSE IF NeedsRefresh(ss[id])
    THEN IF ss[id].refreshToken = 0 \/ ss[id].clientId = "" \/ ss[id].clientSecret = ""
         THEN "throw" ELSE "refresh"
    ELSE "request"

\* a service method from getAccessToken() to the first request it awaits
StartCall(call) ==
    LET step == AccessTokenStep(sessions, call.sessionId)
    IN
    /\ sessions' = getSession(sessions, call.sessionId)
    /\ IF step = "throw"
       THEN /\ resp' = Failed(call)
            /\ UNCHANGED <<calls, upstream, rnd>>
       ELSE /\ rnd["call"] < budget["call"]
            /\ rnd' = Draw("call")
            /\ calls' = Put(calls, Fresh("call"), [call EXCEPT !.pc = step])
            /\ upstream' = Put(upstream, Fresh("call"), <<step>>)
            /\ resp' = Suspended(call.op)

\* what the Tesla service and the vehicle cache do not touch
ServiceTables ==
    <<HAS_SERVER_CREDENTIALS, tokenToSessionId, oauthClients, oauthAuthCodes,
      mcpBearerTokens, mcpRefreshTokens, mcpHttpTransports, pending, budget,
      delivered, issued, activeTransports, sent>>

GetVehiclesForSession(sessionId, forceRefresh) ==
    LET cache == CacheEntry(vehiclesCache, sessionId)
    IN
    /\ IF ~forceRefresh /\ CacheFresh(cache)
       THEN /\ resp' = Returned("getVehiclesForSession", cache[1].vehicles)
            /\ UNCHANGED <<sessions, calls, upstream, rnd>>
       ELSE IF ~isAuthenticated(sessions, sessionId)
       THEN /\ sessions' = getSession(sessions, sessionId)
            /\ resp' = Returned("getVehiclesForSession", <<>>)
            /\ UNCHANGED <<calls, upstream, rnd>>
       ELSE StartCall([op |-> "getVehiclesForSession", sessionId |-> sessionId,
                       now |-> now, cache |-> cache, pc |-> ""])
    /\ UNCHANGED <<now, vehiclesCache, ServiceTables>>

WakeUp(sessionId) ==
    /\ StartCall([op |-> "wakeUp", sessionId |-> sessionId,
                  now |-> 0, cache |-> <<>>, pc |-> ""])
    /\ UNCHANGED <<now, vehiclesCache, ServiceTables>>

\* a service whose token response replaces the refresh token even when it
\* carries none
RefreshedWithRotation(token, hasRefreshToken) ==
    [accessToken |-> token,
     tokenExpiration |-> now + Units(TeslaExpiresIn * 1000),
     refreshToken |-> IF hasRefreshToken THEN token ELSE 0]

\* the fields refreshAccessToken() stores from Tesla's response
Refreshed(token, hasRefreshToken) ==
    IF hasRefreshToken
    THEN [accessToken |-> token,
          tokenExpiration |-> now + Units(TeslaExpiresIn * 1000),
          refreshToken |-> token]
    ELSE [accessToken |-> token,
          tokenExpiration |-> now + Units(TeslaExpiresIn * 1000)]

\* Tesla answers the refresh exchange of call c
RefreshDone(c, ok, hasRefreshToken) ==
    LET call == calls[c]
        stored == updateSession(sessions, call.sessionId,
                                Refreshed(Fresh("tesla"), hasRefreshToken))
    IN
    /\ call.pc = "refresh"
    /\ IF ok
       THEN /\ rnd["tesla"] < budget["tesla"]
            /\ rnd' = Draw("tesla")
            /\ sessions' = getSession(stored, call.sessionId)
            /\ IF Has(stored, call.sessionId) /\ stored[call.sessionId].accessToken # 0
               THEN /\ calls' = [calls EXCEPT ![c].pc = "request"]
                    /\ upstream' = [upstream EXCEPT ![c] = Append(@, "request")]
                    /\ resp' = Suspended(call.op)
               ELSE /\ calls' = Drop(calls, c)
                    /\ upstream' = Drop(upstream, c)
                    /\ resp' = Failed(call)
       ELSE /\ calls' = Drop(calls, c)
            /\ upstream' = Drop(upstream, c)
            /\ resp' = Failed(call)
            /\ UNCHANGED <<sessions, rnd>>
    /\ UNCHANGED <<now, vehiclesCache, ServiceTables>>

\* a cache that stamps the entry with the time the fetch completed
StoredAtCompletion(call, vehicles) == [vehicles |-> vehicles, lastFetch |-> now]

\* vehiclesCache.set(sessionId, { vehicles, lastFetch: now }), now being the
\* clock reading taken when the call began
Stored(call, vehicles) == [vehicles |-> vehicles, lastFetch |-> call.now]

\* Tesla answers the request of call c, or the request fails
RequestDone(c, ok, vehicles) ==
    LET call == calls[c]
    IN
    /\ call.pc = "request"
    /\ calls' = Drop(calls, c)
    /\ upstream' = Drop(upstream, c)
    /\ IF ok
       THEN /\ resp' = Returned(call.op, vehicles)
            /\ IF call.op = "getVehiclesForSession"
               THEN vehiclesCache' = Put(vehiclesCache, call.sessionId,
                                         Stored(call, vehicles))
               ELSE UNCHANGED vehiclesCache
       ELSE /\ resp' = Failed(call)
            /\ UNCHANGED vehiclesCache
    /\ UNCHANGED <<now, sessions, rnd, ServiceTables>>

\* the clock readings of the vehicle cache: the first ones, up to CACHE_TTL,
\* and those one token lifetime later
VehicleTimePoints ==
    LET early == 0..Units(CACHE_TTL)
    IN early \cup {Units(TeslaExpiresIn * 1000) + t : t \in early}

VehiclesBudget ==
    [session |-> MaxSessions, client |-> 0, state |-> MaxLogins,
     verifier |-> MaxLogins, code |-> 0, bearer |-> 0, refresh |-> 0,
     transport |-> 0, sse |-> 0, token |-> MaxTokens,
     tesla |-> MaxServiceTokens, pending |-> MaxPending, call |-> MaxCalls]

InitVehicles == InitWith(VehiclesBudget)

\* a user logs in with Tesla; vehicles are listed and woken while the clock
\* advances and Tesla answers or fails
NextVehicles ==
    \/ CreateSession
    \/ \E session \in DOMAIN sessions : SetupPost(session, "user")
    \/ \E session \in DOMAIN sessions : AuthLogin(session)
    \/ \E session \in DOMAIN sessions :
          AuthCallback(TRUE, session, sessions[session].state, FALSE)
    \/ \E i \in 1..Len(pending), hasRefreshToken \in BOOLEAN :
          AuthCallbackTokens(i, hasRefreshToken)
    \/ \E i \in 1..Len(pending) : AuthCallbackFailed(i)
    \/ \E id \in 0..budget["session"], forceRefresh \in BOOLEAN :
          GetVehiclesForSession(id, forceRefresh)
    \/ \E id \in 0..budget["session"] : WakeUp(id)
    \/ \E c \in DOMAIN calls, ok \in BOOLEAN, hasRefreshToken \in BOOLEAN :
          RefreshDone(c, ok, hasRefreshToken)
    \/ \E c \in DOMAIN calls, ok \in BOOLEAN, vehicles \in VehicleLists :
          RequestDone(c, ok, vehicles)
    \/ \E t \in VehicleTimePoints : Tick(t)

SpecVehicles == InitVehicles /\ [][NextVehicles]_vars

\* a getVehiclesForSession(id, forceRefresh) call begins
Vehicles(id, forceRefresh) ==
    /\ resp'.op = "getVehiclesForSession"
    /\ DOMAIN calls \subseteq DOMAIN calls'
    /\ GetVehiclesForSession(id, forceRefresh)

\* the step sends a request of a new service call to Tesla
NewUpstreamCall ==
    /\ DOMAIN upstream' = DOMAIN upstream \cup {Fresh("call")}
    /\ ~Has(upstream, Fresh("call"))
    /\ upstream'[Fresh("call")] # <<>>

\* the claims' reading of "authenticated": a refresh token and both credentials
Authenticated(id) ==
    /\ Has(sessions, id)
    /\ sessions[id].refreshToken # 0
    /\ sessions[id].clientId # ""
    /\ sessions[id].clientSecret # ""

\* the session's cache entry is less than 60 seconds old
FreshEntry(id) ==
    Has(vehiclesCache, id) /\ now - vehiclesCache[id].lastFetch < Units(60 * 1000)

\* C23: vehicle cache freshness. A getVehiclesForSession call without
\* forceRefresh, less than 60 seconds after the timestamp of the stored cache
\* entry, returns the cached array and makes no upstream call; for an
\* authenticated session a call 60 seconds or more after that timestamp, or
\* any call with forceRefresh, makes a new upstream fetch.
C23_CacheFreshness ==
    [][\A id \in 0..budget["session"], forceRefresh \in BOOLEAN :
          Vehicles(id, forceRefresh) =>
             /\ (~forceRefresh /\ FreshEntry(id)) =>
                   /\ resp' = Returned("getVehiclesForSession", vehiclesCache[id].vehicles)
                   /\ UNCHANGED <<upstream, calls, vehiclesCache>>
             /\ (Authenticated(id) /\ (forceRefresh \/ ~FreshEntry(id))) =>
                   NewUpstreamCall]_vars

\* a call that began exactly 60 seconds after the timestamp of the entry it
\* found is fetching from Tesla
C23_Witness ==
    \E c \in DOMAIN calls :
       /\ calls[c].op = "getVehiclesForSession"
       /\ calls[c].cache # <<>>
       /\ calls[c].now - calls[c].cache[1].lastFetch = Units(60 * 1000)
       /\ upstream[c] # <<>>

\* the vehicles of the session's cache entry as it is now, if it has one
CurrentVehicles(id) ==
    IF Has(vehiclesCache, id) THEN vehiclesCache[id].vehicles ELSE <<>>

\* the upstream fetch of the suspended getVehiclesForSession call c fails
FetchFails(c) ==
    /\ calls[c].op = "getVehiclesForSession"
    /\ resp'.op = "getVehiclesForSession"
    /\ ~Has(calls', c)
    /\ \/ RefreshDone(c, FALSE, FALSE)
       \/ RequestDone(c, FALSE, <<>>)

\* C24: vehicle cache degradation. When the upstream fetch fails,
\* getVehiclesForSession returns the vehicles of the session's cache entry if
\* the session has one and an empty list only if it has none, and the failed
\* call does not modify the entry; also when another call for the same
\* session has completed while the failing call was suspended.
C24_CacheDegradation ==
    [][\A c \in DOMAIN calls :
          FetchFails(c) =>
             /\ resp' = Returned("getVehiclesForSession",
                                 CurrentVehicles(calls[c].sessionId))
             /\ UNCHANGED vehiclesCache]_vars

\* the claims' reading of "not authenticated"
Unauthenticated(id) ==
    \/ ~Has(sessions, id)
    \/ sessions[id].refreshToken = 0
    \/ sessions[id].clientId = ""
    \/ sessions[id].clientSecret = ""

\* C25: for a session that is not authenticated (no refresh token, or no
\* client id or secret) and has no fresh cache entry, getVehiclesForSession
\* returns an empty list, makes no upstream call, raises no error and leaves
\* the vehicle cache unchanged.
C25_UnauthenticatedEmpty ==
    [][\A id \in 0..budget["session"], forceRefresh \in BOOLEAN :
          (Vehicles(id, forceRefresh) /\ Unauthenticated(id) /\ ~FreshEntry(id)) =>
             /\ resp' = Returned("getVehiclesForSession", <<>>)
             /\ UNCHANGED <<upstream, calls, vehiclesCache>>]_vars

\* a session that logged in and got no refresh token was asked for its
\* vehicles before any service call was ever sent upstream
C25_Witness ==
    /\ resp = Returned("getVehiclesForSession", <<>>)
    /\ rnd["call"] = 0
    /\ \E id \in DOMAIN sessions :
          /\ sessions[id].accessToken # 0
          /\ sessions[id].refreshToken = 0
          /\ sessions[id].clientId # ""

\* how many refresh exchanges the requests hold
Exchanges(requests) ==
    Cardinality({i \in 1..Len(requests) : requests[i] = "refresh"})

\* C27: lazy Tesla token refresh. getAccessToken issues a refresh-token
\* exchange only when the session has no access token or its tokenExpiration
\* is at or before now, and at most one per call; it returns the stored token
\* without an exchange when the token is present and unexpired; where it has
\* to refresh and the session has no refresh token, it fails without any
\* upstream call.
C27_LazyRefresh ==
    [][/\ \A c \in DOMAIN calls' \ DOMAIN calls :
             LET session == sessions[calls'[c].sessionId]
                 unexpired == session.accessToken # 0 /\ now < session.tokenExpiration
             IN
             /\ Exchanges(upstream'[c]) = 1 =>
                   \/ session.accessToken = 0
                   \/ session.tokenExpiration # 0 /\ session.tokenExpiration <= now
             /\ unexpired =>
                   /\ upstream'[c] = <<"request">>
                   /\ TokensWritten = {}
       /\ \A c \in DOMAIN upstream' : Exchanges(upstream'[c]) <= 1
       /\ \A id \in DOMAIN sessions :
             (/\ resp'.op = "wakeUp"
              /\ WakeUp(id)
              /\ sessions[id].refreshToken = 0
              /\ ~(sessions[id].accessToken # 0 /\ now < sessions[id].tokenExpiration))
             => /\ resp'.error = "failed"
                /\ UNCHANGED <<upstream, calls>>]_vars

\* the exchange of a call is in flight for a session whose token has expired
C27_Witness ==
    \E c \in DOMAIN calls :
       /\ upstream[c] = <<"refresh">>
       /\ Has(sessions, calls[c].sessionId)
       /\ sessions[calls[c].sessionId].accessToken # 0
       /\ sessions[calls[c].sessionId].tokenExpiration <= now

\* Tesla's response to the refresh exchange of call c is processed
RefreshProcessed(c, hasRefreshToken) ==
    /\ rnd'["tesla"] = rnd["tesla"] + 1
    /\ Has(sessions, calls[c].sessionId)
    /\ RefreshDone(c, TRUE, hasRefreshToken)

\* C28: concurrent refresh is last-writer-wins. Two getAccessToken calls for
\* one session can both have a refresh exchange in flight; every response
\* processed overwrites accessToken and tokenExpiration, and nothing but a
\* processed response of Tesla writes them, so that after both the session
\* holds those of the response processed last; refreshToken is overwritten
\* by a response that carries one and kept otherwise.
C28_LastWriterWins ==
    [][/\ \A c \in DOMAIN calls, hasRefreshToken \in BOOLEAN :
             RefreshProcessed(c, hasRefreshToken) =>
                LET id == calls[c].sessionId IN
                /\ sessions'[id].accessToken = Fresh("tesla")
                /\ sessions'[id].tokenExpiration = now + Units(TeslaExpiresIn * 1000)
                /\ sessions'[id].refreshToken =
                      IF hasRefreshToken THEN Fresh("tesla")
                      ELSE sessions[id].refreshToken
       /\ \A id \in TokensWritten :
             \/ \E c \in DOMAIN calls, hasRefreshToken \in BOOLEAN :
                   calls[c].sessionId = id /\ RefreshProcessed(c, hasRefreshToken)
             \/ \E i \in 1..Len(pending), hasRefreshToken \in BOOLEAN :
                   pending[i].sessionId = id /\ AuthCallbackTokens(i, hasRefreshToken)]_vars

\* two calls of one session have both had their exchange answered; the
\* session holds the access token of the later response, which carried no
\* refresh token, and the refresh token an earlier response wrote
C28_Witness ==
    \E c1 \in DOMAIN calls, c2 \in DOMAIN calls :
       /\ c1 # c2
       /\ calls[c1].sessionId = calls[c2].sessionId
       /\ upstream[c1] = <<"refresh", "request">>
       /\ upstream[c2] = <<"refresh", "request">>
       /\ Has(sessions, calls[c1].sessionId)
       /\ sessions[calls[c1].sessionId].accessToken = rnd["tesla"]
       /\ sessions[calls[c1].sessionId].refreshToken \notin {0, rnd["tesla"]}

\* the tables of the relay and the session store
AllTables ==
    <<sessions, tokenToSessionId, oauthClients, oauthAuthCodes, mcpBearerTokens,
      mcpRefreshTokens, mcpHttpTransports, activeTransports, vehiclesCache>>

\* C31: GET /oauth/authorize validates in order: a response_type other than
\* "code" yields unsupported_response_type; otherwise an unregistered
\* client_id yields invalid_client; in both cases no session is created.
\* POST /oauth/token with a grant_type other than authorization_code or
\* refresh_token yields unsupported_grant_type and changes no table.
C31_ValidationOrder ==
    [][/\ \A r \in AuthorizeRequests :
             Authorize(r) =>
                /\ r.response_type # "code" =>
                      /\ resp' = Response("authorize", 400, "unsupported_response_type")
                      /\ UNCHANGED sessions
                /\ (r.response_type = "code" /\ ~Has(oauthClients, r.client_id)) =>
                      /\ resp' = Response("authorize", 400, "invalid_client")
                      /\ UNCHANGED sessions
       /\ \A r \in TokenRequests :
             (r.grant_type \notin {"authorization_code", "refresh_token"} /\ Token(r)) =>
                /\ resp'.status = 400
                /\ resp'.error = "unsupported_grant_type"
                /\ UNCHANGED AllTables]_vars

\* a request with another response_type, naming a client that no one has
\* registered, was answered with unsupported_response_type
C31_Witness ==
    /\ resp = Response("authorize", 400, "unsupported_response_type")
    /\ oauthClients = EmptyMap
    /\ sessions = EmptyMap

\* a store whose validateState looks the session up with getSession
SessionsTouchedByValidate(ss, id) == getSession(ss, id)

\* validateState reads this.sessions.get(sessionId): the store stays as it is
SessionsAfterValidate(ss, id) == ss

ValidateState(sessionId, state) ==
    /\ sessions' = SessionsAfterValidate(sessions, sessionId)
    /\ resp' = Returned("validateState", validateState(sessions, sessionId, state))
    /\ UNCHANGED <<now, tokenToSessionId, rnd, RelayTables>>

\* ------------------------------------------------- repeated Tesla logins
\* One session whose user visits /auth/login more than once, and callbacks
\* with any state.
LoginsBudget ==
    [session |-> MaxSessions, client |-> 0, state |-> MaxRelogins,
     verifier |-> MaxRelogins, code |-> 0, bearer |-> 0, refresh |-> 0,
     transport |-> 0, sse |-> 0, token |-> MaxTokens,
     tesla |-> MaxTesla, pending |-> MaxPending, call |-> 0]

InitLogins == InitWith(LoginsBudget)

NextLogins ==
    \/ CreateSession
    \/ \E session \in DOMAIN sessions : SetupPost(session, "user")
    \/ \E session \in DOMAIN sessions : AuthLogin(session)
    \/ \E r \in CallbackRequests :
          AuthCallback(r.hasCode, r.sessionId, r.state, r.error)
    \/ \E i \in 1..Len(pending), hasRefreshToken \in BOOLEAN :
          AuthCallbackTokens(i, hasRefreshToken)
    \/ \E i \in 1..Len(pending) : AuthCallbackFailed(i)
    \/ \E id \in 0..budget["session"], state \in 0..budget["state"] :
          ValidateState(id, state)
    \/ \E t \in EarlyTimes : Tick(t)

SpecLogins == InitLogins /\ [][NextLogins]_vars

\* /auth/login of session id runs generateOAuthState
LoginGeneratesState(id) ==
    /\ resp' = Response("login", 302, "")
    /\ rnd'["state"] = rnd["state"] + 1
    /\ AuthLogin(id)

\* C32: generateOAuthState overwrites the prior state of the session. After
\* two consecutive calls on one session (two /auth/login visits) only the
\* second value passes validateState, and a callback carrying the first value
\* is rejected.
C32_StateOverwritten ==
    [][/\ \A id \in DOMAIN sessions :
             LoginGeneratesState(id) =>
                /\ sessions'[id].state = Fresh("state")
                /\ \A st \in 0..budget["state"] :
                      validateState(sessions', id, st) <=> st = Fresh("state")
       /\ \A r \in CallbackRequests :
             (/\ Callback(r)
              /\ r.hasCode
              /\ ~r.error
              /\ Has(sessions, r.sessionId)
              /\ r.state # sessions[r.sessionId].state)
             => /\ resp' = Response("callback", 400, "Invalid state parameter")
                /\ UNCHANGED <<sent, pending>>
                /\ TokensWritten = {}]_vars

\* after the second login of a session a callback was rejected for its
\* state, and no callback of the session was ever accepted
C32_Witness ==
    /\ rnd["state"] = 2
    /\ \E id \in DOMAIN sessions : sessions[id].state = 2
    /\ resp = Response("callback", 400, "Invalid state parameter")
    /\ sent = {}

\* C33: validateState has no side effect. For every session id and supplied
\* state, a validateState call leaves the whole session store as it is, the
\* session's stored state and its lastActivity included, whether the result
\* is true or false.
C33_ValidateStatePure ==
    [][\A id \in 0..budget["session"], state \in 0..budget["state"] :
          (resp'.op = "validateState" /\ ValidateState(id, state)) =>
             /\ UNCHANGED <<sessions, tokenToSessionId>>
             /\ resp'.value \in BOOLEAN]_vars

\* a state was validated, with success, for a session last touched earlier
C33_Witness ==
    /\ resp = Returned("validateState", TRUE)
    /\ \E id \in DOMAIN sessions :
          /\ sessions[id].state # 0
          /\ sessions[id].lastActivity < now

\* ------------------------------------------------- the sliding-window TTL
\* the clock readings of a session kept alive: the start of each 24-hour
\* window, and a little later
WindowTimePoints ==
    {w * Units(SESSION_TTL_MS) + e : w \in 0..MaxWindows, e \in 0..MaxEarly}

\* updateSession data of the setup form
SetupUpdates == {[clientId |-> "user", clientSecret |-> "user"]}

WindowBudget ==
    [session |-> MaxStoreSessions, client |-> 0, state |-> 0,
     verifier |-> 0, code |-> 0, bearer |-> 0, refresh |-> 0,
     transport |-> 0, sse |-> 0, token |-> 0, tesla |-> 0,
     pending |-> 0, call |-> 0]

InitWindow == InitWith(WindowBudget)

\* sessions looked up and updated while the hours pass and the sweep runs
NextWindow ==
    \/ CreateSession
    \/ \E id \in 0..budget["session"] : GetSession(id)
    \/ \E id \in 0..budget["session"], data \in SetupUpdates : UpdateSession(id, data)
    \/ Cleanup
    \/ \E t \in WindowTimePoints : Tick(t)

SpecWindow == InitWindow /\ [][NextWindow]_vars

\* C34: sliding-window TTL. Every successful getSession and updateSession
\* sets the session's lastActivity to the current time, and lastActivity
\* never goes back, so the sweep, which removes a session only when its
\* lastActivity is more than 24 hours old, never removes a session that was
\* looked up within the last 24 hours; a lookup of an absent id returns
\* absent and creates nothing.
C34_SlidingWindow ==
    [][/\ \A id \in 0..budget["session"] :
             /\ (resp'.op = "getSession" /\ GetSession(id)) =>
                   IF Has(sessions, id)
                   THEN /\ resp'.value = id
                        /\ sessions'[id].lastActivity = now
                   ELSE /\ resp'.value = 0
                        /\ UNCHANGED sessions
             /\ \A data \in SetupUpdates :
                   (resp'.op = "updateSession" /\ UpdateSession(id, data)) =>
                      IF Has(sessions, id)
                      THEN sessions'[id].lastActivity = now
                      ELSE UNCHANGED sessions
       /\ \A id \in DOMAIN sessions :
             IF Has(sessions', id)
             THEN sessions'[id].lastActivity >= sessions[id].lastActivity
             ELSE /\ resp'.op = "cleanup"
                  /\ now - sessions[id].lastActivity > Units(24 * 60 * 60 * 1000)]_vars

\* a sweep at hour 48 removed nothing: the session was last touched at hour 24
C34_Witness ==
    /\ resp = Returned("cleanup", {})
    /\ now = 2 * Units(24 * 60 * 60 * 1000)
    /\ \E id \in DOMAIN sessions :
          /\ sessions[id].lastActivity = Units(24 * 60 * 60 * 1000)
          /\ sessions[id].clientId # ""

\* the relay OAuth artifacts of a session (those of a new session if absent)
OAuthArtifacts(ss, id) ==
    LET session == IF Has(ss, id) THEN ss[id] ELSE NewSession
    IN <<session.oauthClientId, session.oauthRedirectUri, session.oauthClientState,
         session.oauthCodeChallenge, session.oauthCodeChallengeMethod>>

\* C35: the relay OAuth artifacts (oauthClientId, oauthRedirectUri,
\* oauthClientState, oauthCodeChallenge, oauthCodeChallengeMethod) are set on
\* a session only by the successful GET /oauth/authorize that creates it, and
\* a session with oauthRedirectUri set has an oauthClientId that is
\* registered and an oauthRedirectUri that is one of that client's
\* registered URIs.
C35_ArtifactsFromAuthorize ==
    [][\A id \in DOMAIN sessions' :
          /\ OAuthArtifacts(sessions', id) # OAuthArtifacts(sessions, id) =>
                /\ ~Has(sessions, id)
                /\ resp'.op = "authorize"
                /\ resp'.status = 302
                /\ resp'.session = id
                /\ \E r \in AuthorizeRequests :
                      /\ Authorize(r)
                      /\ OAuthArtifacts(sessions', id)[1] = r.client_id
                      /\ OAuthArtifacts(sessions', id)[2] = r.redirect_uri
          /\ sessions'[id].oauthRedirectUri # "" =>
                /\ Has(oauthClients', sessions'[id].oauthClientId)
                /\ sessions'[id].oauthRedirectUri
                      \in oauthClients'[sessions'[id].oauthClientId].redirect_uris]_vars

\* a session that carries the artifacts of its client's authorization
\* request has gone through the Tesla login
C35_Witness ==
    \E id \in DOMAIN sessions :
       /\ sessions[id].oauthRedirectUri = "https://client.example/cb"
       /\ Has(oauthClients, sessions[id].oauthClientId)
       /\ sessions[id].oauthCodeChallenge = SHA256("v1")
       /\ sessions[id].accessToken # 0

\* ----------------------------------------------- two users on one gateway
\* Two users complete the authorization flow of one client, and /mcp
\* requests arrive with any token and any session id.
IsolationBudget ==
    [session |-> E2ESessions, client |-> MaxClients, state |-> E2ESessions,
     verifier |-> E2ESessions, code |-> E2ESessions, bearer |-> E2ESessions,
     refresh |-> E2ESessions, transport |-> MaxSessions, sse |-> 0, token |-> 0,
     tesla |-> E2ESessions, pending |-> MaxPending, call |-> 0]

InitIsolation == InitWith(IsolationBudget)

NextIsolation ==
    \/ OAuthRegister({"https://client.example/cb"})
    \/ \E c \in DOMAIN oauthClients :
          OAuthAuthorize(c, "https://client.example/cb", "XYZ", SHA256("v1"),
                         "S256", "code")
    \/ \E session \in DOMAIN sessions : SetupPost(session, "user")
    \/ \E session \in DOMAIN sessions : AuthLogin(session)
    \/ \E session \in DOMAIN sessions :
          AuthCallback(TRUE, session, sessions[session].state, FALSE)
    \/ \E i \in 1..Len(pending) : AuthCallbackTokens(i, TRUE)
    \/ \E code \in DOMAIN oauthAuthCodes :
          OAuthToken("authorization_code", code, oauthAuthCodes[code].redirectUri,
                     oauthAuthCodes[code].clientId,
                     VerifierOf(oauthAuthCodes[code].codeChallenge), 0)
    \/ \E token \in 0..budget["bearer"], mcpSessionId \in 0..budget["transport"],
          isInitialize \in BOOLEAN : McpPost(token, mcpSessionId, isInitialize)
    \/ \E token \in 0..budget["bearer"], mcpSessionId \in 0..budget["transport"] :
          McpGet(token, mcpSessionId)

SpecIsolation == InitIsolation /\ [][NextIsolation]_vars

\* a POST or GET /mcp with this token and session id is forwarded to the
\* transport registered under the id
Forwarded(token, mcpSessionId) ==
    /\ resp'.op \in {"mcp.post", "mcp.get"}
    /\ resp'.status = 200
    /\ mcpSessionId # 0
    /\ Has(mcpHttpTransports, mcpSessionId)
    /\ \/ \E isInitialize \in BOOLEAN : McpPost(token, mcpSessionId, isInitialize)
       \/ McpGet(token, mcpSessionId)

\* C36: transport isolation on /mcp. An authenticated request that names an
\* existing mcp-session-id is forwarded to that transport only if the bearer
\* token's userSessionId equals the userSessionId the transport was bound to
\* at initialization: a bearer token of session A never drives the protocol
\* handler bound to session B.
C36_TransportIsolation ==
    [][\A token \in 0..budget["bearer"], mcpSessionId \in 0..budget["transport"] :
          Forwarded(token, mcpSessionId) =>
             authenticateMcpBearer(token) = mcpHttpTransports[mcpSessionId].userSessionId]_vars

\* ------------------------------------------ credentials and the TTL sweep
\* One client's flow, refresh_token grants and /mcp requests, while the
\* hours pass and the session store is swept.
NextSwept ==
    \/ NextRefresh
    \/ \E token \in 0..budget["bearer"] : McpGet(token, 0)
    \/ Cleanup
    \/ \E t \in SessionTimePoints : Tick(t)

SpecSwept == InitRefresh /\ [][NextSwept]_vars

\* C37: no dangling credentials. Every bearer token accepted by
\* authenticateMcpBearer and every relay refresh token accepted by
\* /oauth/token refers to a userSessionId that exists in the session store:
\* after the TTL sweep or deleteSession has removed a session, no bearer or
\* refresh token bound to it is accepted.
C37_NoDanglingCredentials ==
    [][/\ \A token \in 0..budget["bearer"] :
             (resp'.op = "mcp.get" /\ resp'.status # 401 /\ McpGet(token, 0)) =>
                Has(sessions, authenticateMcpBearer(token))
       /\ \A r \in RefreshRequests :
             (Token(r) /\ resp'.status = 200) =>
                Has(sessions, mcpRefreshTokens[r.refresh_token].userSessionId)]_vars

\* C38: no bearer token is issued by the authorization_code grant without
\* PKCE verification. Every successful exchange presented a code_verifier
\* whose SHA-256 digest equals a code_challenge the client supplied at
\* /oauth/authorize, also where the authorization request supplied none.
C38_PkceAlways ==
    [][\A r \in CodeRequests :
          (Token(r) /\ resp'.status = 200) =>
             /\ oauthAuthCodes[r.code].codeChallenge # ""
             /\ SHA256(r.code_verifier) = oauthAuthCodes[r.code].codeChallenge]_vars

\* C38, as the code has it: an exchange of a code that recorded a challenge
\* succeeds only with a code_verifier whose SHA-256 digest is that challenge,
\* the one the client supplied at /oauth/authorize; a live code that recorded
\* no challenge, presented with its client_id and redirect_uri, is exchanged
\* whatever the code_verifier.
C38_PkceWhenRecorded ==
    [][\A r \in CodeRequests :
          Token(r) =>
             /\ resp'.status = 200 =>
                   /\ \/ oauthAuthCodes[r.code].codeChallenge = ""
                      \/ SHA256(r.code_verifier) = oauthAuthCodes[r.code].codeChallenge
                   /\ Has(sessions, oauthAuthCodes[r.code].userSessionId) =>
                         oauthAuthCodes[r.code].codeChallenge =
                            sessions[oauthAuthCodes[r.code].userSessionId].oauthCodeChallenge
             /\ (/\ PresentsLiveCode(r)
                 /\ oauthAuthCodes[r.code].clientId = r.client_id
                 /\ oauthAuthCodes[r.code].redirectUri = r.redirect_uri
                 /\ oauthAuthCodes[r.code].codeChallenge = "")
                => /\ resp'.status = 200
                   /\ issued' # issued]_vars

\* a code of an authorization request without code_challenge was exchanged
C38_Witness ==
    \E x \in issued :
       /\ x.grant_type = "authorization_code"
       /\ Has(mcpBearerTokens, x.access_token)
       /\ Has(sessions, mcpBearerTokens[x.access_token].userSessionId)
       /\ sessions[mcpBearerTokens[x.access_token].userSessionId].oauthCodeChallenge = ""
       /\ sessions[mcpBearerTokens[x.access_token].userSessionId].oauthRedirectUri # ""

\* C39: a relay refresh token is usable only by the client it was issued to.
\* The refresh_token grant mints a bearer token only when the request's
\* client_id equals the clientId recorded with the refresh token.
C39_RefreshTokenBoundToClient ==
    [][\A r \in RefreshRequests :
          (Token(r) /\ resp'.status = 200) =>
             r.client_id = mcpRefreshTokens[r.refresh_token].clientId]_vars

\* C40: under any interleaving of getVehiclesForSession calls for one
\* session, the fetch timestamp of the cache entry never decreases, and a
\* fetch that started earlier never overwrites the entry written by a fetch
\* that started later.
C40_CacheMonotone ==
    [][\A id \in DOMAIN vehiclesCache :
          /\ Has(vehiclesCache', id)
          /\ vehiclesCache'[id].lastFetch >= vehiclesCache[id].lastFetch]_vars

\* a fetch of getVehiclesForSession call c succeeds with these vehicles
FetchSucceeds(c, vehicles) ==
    /\ calls[c].op = "getVehiclesForSession"
    /\ resp' = Returned("getVehiclesForSession", vehicles)
    /\ RequestDone(c, TRUE, vehicles)

\* C40, as the code has it: the vehicle cache is last-writer-wins. Every
\* successful fetch stores its vehicles under the clock reading taken when
\* its call began, whatever entry is there, and nothing else writes the
\* cache: the entry is that of the fetch that completed last, and its
\* timestamp goes back when that fetch began before the one it overwrites.
C40_LastCompletedWins ==
    [][/\ \A c \in DOMAIN calls, vehicles \in VehicleLists :
             FetchSucceeds(c, vehicles) =>
                /\ vehiclesCache'[calls[c].sessionId] =
                      [vehicles |-> vehicles, lastFetch |-> calls[c].now]
                /\ \A id \in DOMAIN vehiclesCache \ {calls[c].sessionId} :
                      Has(vehiclesCache', id) /\ vehiclesCache'[id] = vehiclesCache[id]
       /\ vehiclesCache' # vehiclesCache =>
             \E c \in DOMAIN calls, vehicles \in VehicleLists :
                FetchSucceeds(c, vehicles)]_vars

\* the entry was written by a fetch that began later than one still in flight
C40_Witness ==
    \E c \in DOMAIN calls :
       /\ calls[c].op = "getVehiclesForSession"
       /\ calls[c].pc = "request"
       /\ Has(vehiclesCache, calls[c].sessionId)
       /\ calls[c].now < vehiclesCache[calls[c].sessionId].lastFetch

====
